---- MODULE Spec2Model ----
(***************************************************************************)
(* Voice-assistant gateway: the FIFO audio queue, the clocked track        *)
(* source, the per-connection Session and the WebSocket signalling         *)
(* handler, modelled from gateway/audio/audio_queue.py,                    *)
(* gateway/audio/webrtc_audio_source.py, gateway/webrtc.py and             *)
(* gateway/server.py.                                                      *)
(*                                                                         *)
(* PCM is scaled down: a frame is FRAME_SAMPLES samples of 2 bytes, with   *)
(* FRAME_SAMPLES a small number standing for the source's 960; bytes are   *)
(* drawn from Byte.                                                        *)
(***************************************************************************)
EXTENDS Integers, Sequences, FiniteSets, TLC

VARIABLES
    queue,        \* AudioQueue: [chunks, current, offset]
    qlog,         \* history of the queue's calls (observation only)
    session,      \* the Session object, or "None"
    speaks,       \* the speak_text coroutines started on the session
    slog,         \* the last Session call and the last frame (observation only)
    hpc,          \* where handle_ws is: "loop", "stt", "llm", "returned", "raised"
    ws_closed,    \* the server has called ws.close()
    inbox,        \* messages that arrived and were not read yet
    conversation, \* ConversationHistory._turns
    agent_mode,   \* llm_is_configured() when the connection was made
    hlog,         \* the message being handled and what was sent for it
                  \* (observation only)
    orch,         \* the Orchestrator: its messages and where chat() is
    olog,         \* the inputs and requests of the orchestrator's calls
                  \* (observation only)
    thr,          \* the threads that call the AudioQueue, each with its
                  \* position inside the call
    lock,         \* the holder of AudioQueue._lock, or "free"
    tasks,        \* the periodic transcribers a Session has spawned, in the
                  \* order of their start_recording calls
    rcall,        \* the stop_recording call in flight, if any
    rlog,         \* the recording calls made and what they returned
                  \* (observation only)
    conn,         \* handle_ws's llm_provider, llm_model and tts_voice
    pulls,        \* the _do_pull tasks a connection has started
    ring,         \* a PCMRingBuffer: [capacity, buf, write_pos, read_pos, size]
    nlog          \* the ring buffer's calls and what they returned
                  \* (observation only)

queueVars == <<queue, qlog>>
sessVars == <<session, speaks, slog>>
wsVars == <<hpc, ws_closed, inbox, conversation, agent_mode, hlog>>
orchVars == <<orch, olog>>
thrVars == <<thr, lock>>
recVars == <<tasks, rcall, rlog>>
ctlVars == <<conn, pulls>>
ringVars == <<ring, nlog>>
vars == <<queue, qlog, session, speaks, slog,
          hpc, ws_closed, inbox, conversation, agent_mode, hlog,
          orch, olog, thr, lock, tasks, rcall, rlog, conn, pulls,
          ring, nlog>>

----------------------------------------------------------------------------
(* Bounds of the model. *)

\* longest PCM blob handed to enqueue, in bytes
MaxBlobLen == 2
\* enqueue calls in one run of the queue
MaxEnq == 2
\* largest n of a read(n) call
MaxReadLen == 3
\* read calls in one run of the queue
MaxReads == 2
\* samples per frame; stands for the source's 960 (20 ms at 48 kHz)
FRAME_SAMPLES == 1
\* frames the track source is asked for in one run
MaxFrames == 2
\* speak_text calls made on one session
MaxSpeakCalls == 1
\* longest synthesized PCM blob of one sentence, in bytes
MaxPcmLen == 2
\* messages that can wait unread in the socket
MaxInbox == 1
\* Session objects made on one connection
MaxSessions == 2
\* mic_stop messages sent on one connection
MaxMicStops == 2
\* frames the browser's mic track delivers on one connection
MaxMicFrames == 2
\* frames the track makes on one connection
MaxWsFrames == 3
\* longest orchestrator history
MaxHistory == 5
\* settings.max_history_messages; stands for the source's 20
max_history_messages == 2
\* settings.max_tool_calls_per_turn; stands for the source's 5
max_tool_calls_per_turn == 3
\* tool calls in one response of the model
MaxToolCalls == 2
\* chat() calls on one Orchestrator
MaxChats == 3
\* dispatch_tool_call calls in one run
MaxDispatch == 2
\* start_recording calls on one Session
MaxStarts == 2
\* samples per channel of a microphone frame
MaxSamples == 2
\* pull_model messages one connection has accepted
MaxPulls == 2
\* progress frames the stream of one pull delivers
MaxPullFrames == 1
\* agent turns on one connection
MaxAgentTurns == 2
\* pieces a model reply is made of
MaxPieces == 3
\* speak_text calls made on one session that is interrupted
MaxBargeSpeaks == 2
\* largest capacity of a PCMRingBuffer, in bytes
MaxCapacity == 2
\* longest byte string handed to PCMRingBuffer.write
MaxRingWrite == 3

Byte == {0, 1}

Min(a, b) == IF a < b THEN a ELSE b

\* bytearray(n): n zero bytes
Zeros(n) == [i \in 1..n |-> 0]

\* byte strings of length 0..n
BytesUpTo(n) == UNION {[1..k -> Byte] : k \in 0..n}

RECURSIVE SumLen(_)
SumLen(s) == IF s = <<>> THEN 0 ELSE Len(Head(s)) + SumLen(Tail(s))

RECURSIVE Concat(_)
Concat(s) == IF s = <<>> THEN <<>> ELSE Head(s) \o Concat(Tail(s))

----------------------------------------------------------------------------
(* AudioQueue (gateway/audio/audio_queue.py).  Every method runs under     *)
(* self._lock, so each is one atomic step.                                 *)

AQ_new == [chunks |-> <<>>, current |-> <<>>, offset |-> 0]

AQ_available(q) == Len(q.current) - q.offset + SumLen(q.chunks)

\* a mutant of enqueue: the blob is put at the front of the deque
AQ_enqueue_front(q, data) ==
    IF data = <<>> THEN q ELSE [q EXCEPT !.chunks = <<data>> \o @]

\* a mutant of enqueue: the blob is lost
AQ_enqueue_dropped(q, data) == q

AQ_enqueue(q, data) ==
    IF data = <<>> THEN q ELSE [q EXCEPT !.chunks = Append(@, data)]

\* the while loop of read(): q is the queue, result the bytearray, written
\* the count of bytes copied so far
RECURSIVE AQ_read_loop(_, _, _, _)
AQ_read_loop(q, n, result, written) ==
    IF written >= n
    THEN [q |-> q, out |-> result]
    ELSE IF q.offset >= Len(q.current) /\ q.chunks = <<>>
    THEN [q |-> q, out |-> result]
    ELSE LET q1 == IF q.offset >= Len(q.current)
                   THEN [chunks |-> Tail(q.chunks),
                         current |-> Head(q.chunks),
                         offset |-> 0]
                   ELSE q
             remaining_in_chunk == Len(q1.current) - q1.offset
             to_copy == Min(remaining_in_chunk, n - written)
             result1 == [i \in 1..n |->
                           IF i > written /\ i <= written + to_copy
                           THEN q1.current[q1.offset + (i - written)]
                           ELSE result[i]]
         IN  AQ_read_loop([q1 EXCEPT !.offset = @ + to_copy], n, result1,
                          written + to_copy)

\* read(n): the queue after the call and the bytes returned
AQ_read(q, n) == AQ_read_loop(q, n, Zeros(n), 0)

\* a mutant of clear: only the blob at the head of the queue is dropped
AQ_clear_head(q) ==
    IF q.current # <<>> THEN [q EXCEPT !.current = <<>>, !.offset = 0]
    ELSE [q EXCEPT !.chunks = IF @ = <<>> THEN @ ELSE Tail(@)]

AQ_clear(q) == [chunks |-> <<>>, current |-> <<>>, offset |-> 0]

----------------------------------------------------------------------------
(* The queue on its own, driven by any caller.  qlog records the calls:    *)
(* enq/rd are the bytes enqueued and returned while the calls made so far  *)
(* are enqueues followed by reads (shape "enq", then "read"); any other    *)
(* order, or a clear, makes the shape "other".                             *)

QLogInit == [shape |-> "enq", enq |-> <<>>, rd |-> <<>>, blobs |-> 0,
             nEnq |-> 0, nRead |-> 0,
             last |-> [op |-> "new", n |-> 0, out |-> <<>>, avail |-> 0]]

QInit ==
    /\ queue = AQ_new
    /\ qlog = QLogInit
    /\ session = "None"
    /\ speaks = <<>>
    /\ slog = "None"
    /\ hpc = "None"
    /\ ws_closed = FALSE
    /\ inbox = <<>>
    /\ conversation = <<>>
    /\ agent_mode = FALSE
    /\ hlog = "None"
    /\ orch = "None"
    /\ olog = "None"
    /\ thr = "None"
    /\ lock = "free"
    /\ tasks = <<>>
    /\ rcall = "None"
    /\ rlog = "None"
    /\ conn = "None"
    /\ pulls = <<>>
    /\ ring = "None"
    /\ nlog = "None"

QEnqueue(data) ==
    /\ qlog.nEnq < MaxEnq
    /\ queue' = AQ_enqueue(queue, data)
    /\ qlog' = [qlog EXCEPT
                  !.nEnq = @ + 1,
                  !.shape = IF @ = "enq" THEN "enq" ELSE "other",
                  !.enq = IF qlog.shape = "enq" THEN @ \o data ELSE <<>>,
                  !.rd = <<>>,
                  !.blobs = IF qlog.shape = "enq" /\ data # <<>>
                            THEN @ + 1 ELSE @,
                  !.last = [op |-> "enqueue", n |-> Len(data), out |-> data,
                            avail |-> AQ_available(queue)]]

QRead(n) ==
    /\ qlog.nRead < MaxReads
    /\ LET r == AQ_read(queue, n)
       IN  /\ queue' = r.q
           /\ qlog' = [qlog EXCEPT
                         !.nRead = @ + 1,
                         !.shape = IF @ \in {"enq", "read"} THEN "read"
                                   ELSE "other",
                         !.rd = IF qlog.shape \in {"enq", "read"}
                                THEN @ \o r.out ELSE <<>>,
                         !.last = [op |-> "read", n |-> n, out |-> r.out,
                                   avail |-> AQ_available(queue)]]

QClear ==
    /\ qlog.last.op # "clear"
    /\ queue' = AQ_clear(queue)
    /\ qlog' = [qlog EXCEPT
                  !.shape = "other", !.enq = <<>>, !.rd = <<>>,
                  !.last = [op |-> "clear", n |-> 0, out |-> <<>>,
                            avail |-> AQ_available(queue)]]

QNext ==
    \/ \E data \in BytesUpTo(MaxBlobLen) : QEnqueue(data) /\ UNCHANGED <<sessVars, wsVars, orchVars, thrVars, recVars, ctlVars, ringVars>>
    \/ \E n \in 0..MaxReadLen : QRead(n) /\ UNCHANGED <<sessVars, wsVars, orchVars, thrVars, recVars, ctlVars, ringVars>>
    \/ QClear /\ UNCHANGED <<sessVars, wsVars, orchVars, thrVars, recVars, ctlVars, ringVars>>

SpecQueue == QInit /\ [][QNext]_vars

\* the first n bytes of s followed by zero bytes
Padded(s, n) == [i \in 1..n |-> IF i <= Len(s) THEN s[i] ELSE 0]

----------------------------------------------------------------------------
(* C1: enqueues on a new queue followed by reads, with no clear: every     *)
(* read(n) returns exactly n bytes, and the reads, put end to end, are the *)
(* enqueued bytes in order followed by zero bytes; read(0) returns the     *)
(* empty string and read(n) on an empty queue returns n zero bytes.        *)

C1_FifoReadsArePaddedConcat ==
    /\ qlog.last.op = "read" =>
          /\ Len(qlog.last.out) = qlog.last.n
          /\ qlog.last.n = 0 => qlog.last.out = <<>>
          /\ qlog.last.avail = 0 => qlog.last.out = Zeros(qlog.last.n)
    /\ qlog.shape = "read" => qlog.rd = Padded(qlog.enq, Len(qlog.rd))

\* two blobs were enqueued, a first read ended inside the second blob and a
\* later read ran past the end of the data into the padding
C1_Witness ==
    /\ qlog.shape = "read"
    /\ qlog.blobs >= 2
    /\ qlog.nRead >= 2
    /\ Len(qlog.rd) > Len(qlog.enq)
    /\ qlog.last.avail > 0
    /\ \E i \in 1..Len(qlog.enq) : qlog.enq[i] # 0

----------------------------------------------------------------------------
(* WebRTCAudioSource (gateway/audio/webrtc_audio_source.py) and the two    *)
(* generators it can hold: "sine" (engine/adapter.py SineWaveGenerator)    *)
(* and "tts" (gateway/webrtc.py QueuedGenerator over the session's FIFO).  *)

\* bytes of one frame: FRAME_SAMPLES int16 samples
FrameBytes == FRAME_SAMPLES * 2

Src_new == [generator |-> "None", start_time |-> "None", frame_count |-> 0]

\* a mutant of set_generator: attaching a generator restarts the clock
Src_set_generator_restarts(src, g) ==
    [src EXCEPT !.generator = g, !.start_time = "None", !.frame_count = 0]

Src_set_generator(src, g) == [src EXCEPT !.generator = g]

\* a mutant of clear_generator: detaching leaves the source as constructed
Src_clear_generator_resets(src) == Src_new

Src_clear_generator(src) == [src EXCEPT !.generator = "None"]

\* SineWaveGenerator.next_chunk: one frame of tone; the phase is left out
\* and every byte of a tone frame is written 9
Sine_next_chunk == [i \in 1..FrameBytes |-> 9]

\* QueuedGenerator.next_chunk: queue.read(FRAME_SAMPLES * 2)
QueuedGenerator_next_chunk(q) == AQ_read(q, FRAME_SAMPLES * 2)

\* recv(): the source and the FIFO after the call, and the frame returned
Src_recv(src, q) ==
    LET src1 == [src EXCEPT !.start_time = "set", !.frame_count = @ + 1]
        r == IF src.generator = "tts"
             THEN QueuedGenerator_next_chunk(q)
             ELSE [q |-> q,
                   out |-> IF src.generator = "sine" THEN Sine_next_chunk
                           ELSE Zeros(FRAME_SAMPLES * 2)]
    IN  [src |-> src1, q |-> r.q,
         frame |-> [samples |-> r.out,
                    pts |-> (src1.frame_count - 1) * FRAME_SAMPLES]]

----------------------------------------------------------------------------
(* Session (gateway/webrtc.py).                                            *)

VOICE_FREQ == {"sine-220", "sine-440", "sine-880"}

\* SineWaveGenerator.__init__ raises ValueError for an unknown voice
create_generator_raises(voice_id) == voice_id \notin VOICE_FREQ

Session_new ==
    [audio_source |-> Src_new,
     generator |-> "None",
     audio_queue |-> AQ_new,
     recording |-> FALSE,
     mic_frames |-> <<>>,
     transcribe_task |-> "None",
     mic_recv_task |-> "None",
     closed |-> FALSE]

\* start_audio(voice_id), for a voice create_generator accepts
Session_start_audio(s) ==
    [s EXCEPT !.generator = "sine",
              !.audio_source = Src_set_generator(@, "sine")]

Session_stop_audio(s) ==
    [s EXCEPT !.audio_source = Src_clear_generator(@),
              !.generator = "None"]

\* a mutant of stop_speaking: the queue is cleared, the generator stays
Session_stop_speaking_keeps_generator(s) ==
    [s EXCEPT !.audio_queue = AQ_clear(@)]

Session_stop_speaking(s) ==
    [s EXCEPT !.audio_queue = AQ_clear(@),
              !.audio_source = Src_clear_generator(@)]

\* _split_sentences: re.split(r'(?<=[.!?])\s+', text.strip()), blank parts
\* dropped.  A text is a sequence of characters.
IsSpace(c) == c = " "
IsEndPunct(c) == c \in {".", "!", "?"}

RECURSIVE LStrip(_)
LStrip(t) == IF t # <<>> /\ IsSpace(Head(t)) THEN LStrip(Tail(t)) ELSE t

RECURSIVE RStrip(_)
RStrip(t) ==
    IF t # <<>> /\ IsSpace(t[Len(t)]) THEN RStrip(SubSeq(t, 1, Len(t) - 1))
    ELSE t

Strip(t) == RStrip(LStrip(t))

\* t from position i on: cur is the part being collected, parts those done
RECURSIVE Split_loop(_, _, _, _)
Split_loop(t, i, cur, parts) ==
    IF i > Len(t) THEN Append(parts, cur)
    ELSE IF IsSpace(t[i]) /\ i > 1 /\ IsEndPunct(t[i - 1])
    THEN Split_loop(LStrip(SubSeq(t, i, Len(t))), 1, <<>>, Append(parts, cur))
    ELSE Split_loop(t, i + 1, Append(cur, t[i]), parts)

Split_sentences(text) ==
    LET parts == Split_loop(Strip(text), 1, <<>>, <<>>)
    IN  SelectSeq(parts, LAMBDA p : Strip(p) # <<>>)

\* the texts callers pass
Texts ==
    { <<>>,
      <<" ">>,
      <<"a">>,
      <<"a", " ", "a">>,
      <<"a", ".", "a">>,
      <<"a", ".", " ", "a", "?">>,
      <<" ", "a", "!", " ", " ", "a", ".", " ">> }

\* the PCM synthesize returns for sentence i of speak_text call c: a blob
\* of the given length; its bytes carry the call and the sentence
Pcm(c, i, len) == [k \in 1..len |-> 10 * c + i]

----------------------------------------------------------------------------
(* A Session driven by any caller of its methods.  speak_text is a         *)
(* coroutine: it attaches the generator and then, per sentence, awaits the *)
(* synthesis in a worker thread and enqueues the blob.  speaks[c] is the   *)
(* c-th call: n sentences, i the one being synthesized, pc its position.   *)

\* recvs counts the recv() calls made so far; it is carried by every step.
\* prev_op, prev_avail: for stop_speaking, the call made just before it and
\* the bytes that call found queued
SLogInit == [op |-> "new", pre_avail |-> 0, pre_gen |-> "None",
             frame |-> <<>>, pts |-> 0 - 1, recvs |-> 0,
             prev_op |-> "None", prev_avail |-> 0]

SInit ==
    /\ queue = AQ_new
    /\ qlog = QLogInit
    /\ session = Session_new
    /\ speaks = <<>>
    /\ slog = SLogInit
    /\ hpc = "None"
    /\ ws_closed = FALSE
    /\ inbox = <<>>
    /\ conversation = <<>>
    /\ agent_mode = FALSE
    /\ hlog = "None"
    /\ orch = "None"
    /\ olog = "None"
    /\ thr = "None"
    /\ lock = "free"
    /\ tasks = <<>>
    /\ rcall = "None"
    /\ rlog = "None"
    /\ conn = "None"
    /\ pulls = <<>>
    /\ ring = "None"
    /\ nlog = "None"

SStartAudio(voice_id) ==
    /\ slog.op # "start_audio"
    /\ IF create_generator_raises(voice_id)
       THEN /\ session' = session
            /\ slog' = [SLogInit EXCEPT !.recvs = slog.recvs, !.op = "start_audio_raised"]
       ELSE /\ session' = Session_start_audio(session)
            /\ slog' = [SLogInit EXCEPT
                          !.recvs = slog.recvs,
                          !.op = "start_audio",
                          !.pre_gen = session.audio_source.generator]
    /\ UNCHANGED <<speaks, queueVars, wsVars, orchVars, thrVars, recVars, ctlVars, ringVars>>

SStopAudio ==
    /\ slog.op # "stop_audio"
    /\ session' = Session_stop_audio(session)
    /\ slog' = [SLogInit EXCEPT !.recvs = slog.recvs, !.op = "stop_audio",
                                !.pre_gen = session.audio_source.generator]
    /\ UNCHANGED <<speaks, queueVars, wsVars, orchVars, thrVars, recVars, ctlVars, ringVars>>

SStopSpeaking ==
    /\ session' = Session_stop_speaking(session)
    /\ slog' = [SLogInit EXCEPT !.recvs = slog.recvs,
                  !.op = "stop_speaking",
                  !.pre_avail = AQ_available(session.audio_queue),
                  !.pre_gen = session.audio_source.generator,
                  !.prev_op = slog.op,
                  !.prev_avail = slog.pre_avail]
    /\ UNCHANGED <<speaks, queueVars, wsVars, orchVars, thrVars, recVars, ctlVars, ringVars>>

\* speak_text up to its first await (or to its end, for no sentence)
SSpeakBegin(text) ==
    /\ Len(speaks) < MaxSpeakCalls
    /\ LET n == Len(Split_sentences(text))
       IN  speaks' = Append(speaks, [n |-> n, i |-> 1,
                                     pc |-> IF n = 0 THEN "done" ELSE "synth"])
    /\ session' = [session EXCEPT
                     !.audio_source = Src_set_generator(@, "tts")]
    /\ slog' = [SLogInit EXCEPT !.recvs = slog.recvs, !.op = "speak_text"]
    /\ UNCHANGED <<queueVars, wsVars, orchVars, thrVars, recVars, ctlVars, ringVars>>

\* the synthesis of call c's current sentence returns len bytes; the
\* coroutine enqueues them and goes on to the next sentence
SSynthReturn(c, len) ==
    /\ speaks[c].pc = "synth"
    /\ LET pcm_48k == Pcm(c, speaks[c].i, len)
       IN  session' = [session EXCEPT
                         !.audio_queue = IF pcm_48k # <<>>
                                         THEN AQ_enqueue(@, pcm_48k) ELSE @]
    /\ speaks' = [speaks EXCEPT
                    ![c].i = @ + 1,
                    ![c].pc = IF speaks[c].i = speaks[c].n THEN "done"
                              ELSE "synth"]
    /\ slog' = [SLogInit EXCEPT !.recvs = slog.recvs, !.op = "enqueue"]
    /\ UNCHANGED <<queueVars, wsVars, orchVars, thrVars, recVars, ctlVars, ringVars>>

\* aiortc asks the track for its next frame
SRecv ==
    /\ slog.recvs < MaxFrames
    /\ LET r == Src_recv(session.audio_source, session.audio_queue)
       IN  /\ session' = [session EXCEPT !.audio_source = r.src,
                                          !.audio_queue = r.q]
           /\ slog' = [SLogInit EXCEPT !.recvs = slog.recvs + 1, !.op = "recv",
                                   !.frame = r.frame.samples,
                                   !.pts = r.frame.pts]
    /\ UNCHANGED <<speaks, queueVars, wsVars, orchVars, thrVars, recVars, ctlVars, ringVars>>

SNext ==
    \/ \E v \in {"sine-440", "nope"} : SStartAudio(v)
    \/ SStopAudio
    \/ SStopSpeaking
    \/ \E text \in Texts : SSpeakBegin(text)
    \/ \E c \in 1..Len(speaks), len \in 0..MaxPcmLen : SSynthReturn(c, len)
    \/ SRecv

SpecSession == SInit /\ [][SNext]_vars

\* the samples of the frame the track source would return now
NextFrame(s) == Src_recv(s.audio_source, s.audio_queue).frame.samples

----------------------------------------------------------------------------
(* C2: when stop_speaking() returns, the FIFO holds no byte and the track  *)
(* source has no generator, so the next frame of the track is all zeros,   *)
(* whatever was queued or attached before the call.                        *)

C2_StopSpeakingSilences ==
    slog.op = "stop_speaking" =>
        /\ AQ_available(session.audio_queue) = 0
        /\ session.audio_source.generator = "None"
        /\ NextFrame(session) = Zeros(FrameBytes)

\* stop_speaking returned on a session that was playing queued speech
C2_Witness ==
    /\ slog.op = "stop_speaking"
    /\ slog.pre_avail > 0
    /\ slog.pre_gen = "tts"
    /\ \E c \in 1..Len(speaks) : speaks[c].pc = "synth"

\* stop_speaking returned on a session that was playing the tone
C2_WitnessSine ==
    /\ slog.op = "stop_speaking"
    /\ slog.pre_gen = "sine"

----------------------------------------------------------------------------
(* Session: recording and teardown (gateway/webrtc.py).                    *)

\* on_track: the browser's audio track arrives and the ingest task starts
Session_on_track(s) == [s EXCEPT !.mic_recv_task = "live"]

\* a mutant of _recv_mic_audio: the frame is appended whatever the flag
Session_mic_frame_always(s, frame) ==
    [s EXCEPT !.mic_frames = Append(@, frame)]

\* _recv_mic_audio, one frame: appended only while recording
Session_mic_frame(s, frame) ==
    IF s.recording THEN [s EXCEPT !.mic_frames = Append(@, frame)] ELSE s

Session_start_recording(s) ==
    [s EXCEPT !.mic_frames = <<>>,
              !.recording = TRUE,
              !.transcribe_task = "live"]

\* stop_recording up to its await: with no frame it returns "" at once,
\* otherwise it takes the frames and awaits the final transcription
Session_stop_recording(s) ==
    [s EXCEPT !.recording = FALSE,
              !.transcribe_task = "None",
              !.mic_frames = <<>>]

Session_close(s) ==
    [Session_stop_audio(s) EXCEPT
        !.recording = FALSE,
        !.transcribe_task = IF @ = "live" THEN "cancelled" ELSE @,
        !.mic_recv_task = IF @ = "live" THEN "cancelled" ELSE @,
        !.closed = TRUE]

\* the parameters of Session.speak_text besides self
speak_text_params == {"text"}

----------------------------------------------------------------------------
(* ConversationHistory (engine/conversation.py); a turn is its role.       *)

MAX_TURNS == 10

\* a mutant of add_turn: the turn is not appended
Conv_add_turn_lost(turns, role) == turns

Conv_add_turn(turns, role) ==
    LET t == Append(turns, role)
    IN  IF Len(t) > MAX_TURNS
        THEN SubSeq(t, Len(t) - MAX_TURNS + 1, Len(t))
        ELSE t

----------------------------------------------------------------------------
(* handle_ws (gateway/server.py): one WebSocket connection.                *)

\* `session = None` at the head of handle_ws
NoSession == [none |-> TRUE]

AUTH_TOKEN == "devtoken"

\* a mutant of the token test: every token passes
TokenOk_any(token) == TRUE

TokenOk(token) == token = AUTH_TOKEN

\* the arguments of the handler's calls session.speak_text(text,
\* voice_id=tts_voice)
speak_text_call_args == {"text", "voice_id"}

\* Python binds the arguments when the call is made and raises TypeError
\* for a keyword the function does not take
speak_text_call_raises == ~(speak_text_call_args \subseteq speak_text_params)

\* the frames a client can send: a binary frame, a text frame that is not
\* JSON, JSON that is not an object, and objects by their "type"
SpeakTexts == { <<>>, <<" ">>, <<"a", ".", " ", "a", "?">> }

ClientMsgs ==
    {[type |-> t] : t \in {"BINARY", "INVALID_JSON", "NOT_AN_OBJECT", "stop",
                           "stop_speaking", "mic_start", "mic_stop", "ping",
                           "bogus"}}
    \cup {[type |-> "hello", token |-> k] : k \in {"devtoken", "wrong"}}
    \cup {[type |-> "webrtc_offer", sdp |-> x] : x \in {"v=0", ""}}
    \cup {[type |-> "start", voice_id |-> v] : v \in {"sine-440", "nope"}}
    \cup {[type |-> "speak", text |-> t] : t \in SpeakTexts}

MsgsOf(type) == {m \in ClientMsgs : m.type = type}

Reply(type, message) == [type |-> type, message |-> message]

RECURSIVE CountType(_, _)
CountType(box, type) ==
    IF box = <<>> THEN 0
    ELSE (IF Head(box).type = type THEN 1 ELSE 0) + CountType(Tail(box), type)

\* greeted: a hello with the right token has been answered on this
\* connection
HLogInit == [msg |-> [type |-> "none"], replies |-> <<>>,
             had_session |-> FALSE, created |-> 0, stop_wait |-> 0,
             llm |-> "none", hist_at_call |-> <<>>, mic_stops |-> 0,
             mic_seq |-> 0, greeted |-> FALSE]

\* what the client can still send within the bounds
Sendable(m) ==
    /\ (m.type = "webrtc_offer" /\ m.sdp # "") =>
          hlog.created < MaxSessions
    /\ m.type = "mic_stop" =>
          hlog.mic_stops < MaxMicStops

\* `async for raw in ws` yields m: the oldest unread message, or one that
\* arrives now
Reads(m) ==
    /\ hpc = "loop"
    /\ IF inbox # <<>> THEN m = Head(inbox) ELSE Sendable(m)
    /\ inbox' = IF inbox # <<>> THEN Tail(inbox) ELSE inbox

\* the record of a message whose handling starts
Taken(m) == [hlog EXCEPT !.msg = m, !.replies = <<>>,
                         !.had_session = session # NoSession,
                         !.stop_wait = 0, !.llm = "none",
                         !.hist_at_call = <<>>]

\* the handler goes back to the head of the loop having sent `replies`
Continue(m, replies) ==
    /\ hpc' = "loop"
    /\ hlog' = [Taken(m) EXCEPT !.replies = replies]
    /\ UNCHANGED ws_closed

\* an exception leaves handle_ws: nothing after the loop runs
Raise(m) ==
    /\ hpc' = "raised"
    /\ hlog' = Taken(m)
    /\ UNCHANGED <<ws_closed, session, conversation>>

\* the code after the loop: `if session: await session.close()`
Cleanup(s) == IF s # NoSession THEN Session_close(s) ELSE s

WInit ==
    /\ queue = AQ_new
    /\ qlog = QLogInit
    /\ session = NoSession
    /\ speaks = <<>>
    /\ slog = SLogInit
    /\ hpc = "loop"
    /\ ws_closed = FALSE
    /\ inbox = <<>>
    /\ conversation = <<>>
    /\ agent_mode \in BOOLEAN
    /\ hlog = HLogInit
    /\ orch = "None"
    /\ olog = "None"
    /\ thr = "None"
    /\ lock = "free"
    /\ tasks = <<>>
    /\ rcall = "None"
    /\ rlog = "None"
    /\ conn = "None"
    /\ pulls = <<>>
    /\ ring = "None"
    /\ nlog = "None"

H_binary ==
    \E m \in MsgsOf("BINARY") :
        /\ Reads(m)
        /\ Continue(m, <<>>)
        /\ UNCHANGED <<session, conversation>>

H_invalid_json ==
    \E m \in MsgsOf("INVALID_JSON") :
        /\ Reads(m)
        /\ Continue(m, <<Reply("error", "Invalid JSON")>>)
        /\ UNCHANGED <<session, conversation>>

\* json.loads gave a list, a number or a string: msg.get raises
H_not_an_object ==
    \E m \in MsgsOf("NOT_AN_OBJECT") :
        /\ Reads(m)
        /\ Raise(m)

H_hello ==
    \E m \in MsgsOf("hello") :
        /\ Reads(m)
        /\ IF ~TokenOk(m.token)
           THEN /\ hlog' = [Taken(m) EXCEPT
                              !.replies = <<Reply("error", "Bad token")>>]
                /\ ws_closed' = TRUE
                /\ session' = Cleanup(session)
                /\ hpc' = "returned"
           ELSE /\ hpc' = "loop"
                /\ hlog' = [Taken(m) EXCEPT
                              !.replies = <<Reply("hello_ack", "")>>,
                              !.greeted = TRUE]
                /\ UNCHANGED <<ws_closed, session>>
        /\ UNCHANGED conversation

H_webrtc_offer ==
    \E m \in MsgsOf("webrtc_offer") :
        /\ Reads(m)
        /\ IF m.sdp = ""
           THEN /\ Continue(m, <<Reply("error", "Missing SDP")>>)
                /\ UNCHANGED session
           ELSE /\ session' = Session_on_track(Session_new)
                /\ hpc' = "loop"
                /\ hlog' = [Taken(m) EXCEPT
                              !.replies = <<Reply("webrtc_answer", "")>>,
                              !.created = @ + 1]
                /\ UNCHANGED ws_closed
        /\ UNCHANGED conversation

H_start ==
    \E m \in MsgsOf("start") :
        /\ Reads(m)
        /\ IF session # NoSession
           THEN IF create_generator_raises(m.voice_id)
                THEN Raise(m)
                ELSE /\ session' = Session_start_audio(session)
                     /\ Continue(m, <<>>)
                     /\ UNCHANGED conversation
           ELSE /\ Continue(m, <<Reply("error", "No WebRTC session")>>)
                /\ UNCHANGED <<session, conversation>>

H_stop ==
    \E m \in MsgsOf("stop") :
        /\ Reads(m)
        /\ session' = IF session # NoSession THEN Session_stop_audio(session)
                      ELSE session
        /\ Continue(m, <<>>)
        /\ UNCHANGED conversation

\* the call session.speak_text(text, voice_id=tts_voice) raises TypeError,
\* which no handler catches in this branch
H_speak ==
    \E m \in MsgsOf("speak") :
        /\ Reads(m)
        /\ IF Strip(m.text) = <<>>
           THEN /\ Continue(m, <<Reply("error", "Empty text")>>)
                /\ UNCHANGED <<session, conversation>>
           ELSE IF session # NoSession
           THEN /\ speak_text_call_raises
                /\ Raise(m)
           ELSE /\ Continue(m, <<Reply("error", "No WebRTC session")>>)
                /\ UNCHANGED <<session, conversation>>

H_stop_speaking ==
    \E m \in MsgsOf("stop_speaking") :
        /\ Reads(m)
        /\ session' = IF session # NoSession THEN Session_stop_speaking(session)
                      ELSE session
        /\ Continue(m, <<>>)
        /\ UNCHANGED conversation

H_mic_start ==
    \E m \in MsgsOf("mic_start") :
        /\ Reads(m)
        /\ IF session # NoSession
           THEN /\ session' = Session_start_recording(session)
                /\ Continue(m, <<>>)
           ELSE /\ Continue(m, <<Reply("error", "No WebRTC session")>>)
                /\ UNCHANGED session
        /\ UNCHANGED conversation

\* mic_stop up to the await inside stop_recording; with no captured frame
\* stop_recording returns "" without awaiting and the branch runs to its
\* end: the final transcription is sent and there is no agent turn
H_mic_stop ==
    \E m \in MsgsOf("mic_stop") :
        /\ Reads(m)
        /\ IF session = NoSession
           THEN /\ hpc' = "loop"
                /\ hlog' = [Taken(m) EXCEPT
                              !.replies = <<Reply("error", "No WebRTC session")>>,
                              !.mic_stops = @ + 1]
                /\ UNCHANGED session
           ELSE /\ session' = Session_stop_recording(session)
                /\ IF session.mic_frames = <<>>
                   THEN /\ hpc' = "loop"
                        /\ hlog' = [Taken(m) EXCEPT
                                      !.replies = <<Reply("transcription", "final")>>,
                                      !.mic_stops = @ + 1]
                   ELSE /\ hpc' = "stt"
                        /\ hlog' = [Taken(m) EXCEPT !.mic_stops = @ + 1]
        /\ UNCHANGED <<ws_closed, conversation>>

\* the final transcription returns `heard` (TRUE: some text, FALSE: "");
\* the handler sends it and, in agent mode with some text, adds the user
\* turn, sends agent_thinking and awaits the language model
H_stt_return(heard) ==
    /\ hpc = "stt"
    /\ IF agent_mode /\ heard
       THEN /\ conversation' = Conv_add_turn(conversation, "user")
            /\ hpc' = "llm"
            /\ hlog' = [hlog EXCEPT
                          !.replies = @ \o <<Reply("transcription", "final"),
                                             Reply("agent_thinking", "")>>,
                          !.llm = "called",
                          !.hist_at_call = conversation']
       ELSE /\ hpc' = "loop"
            /\ hlog' = [hlog EXCEPT
                          !.replies = @ \o <<Reply("transcription", "final")>>]
            /\ UNCHANGED conversation
    /\ UNCHANGED <<session, ws_closed, inbox>>

\* llm_generate returns a reply: the assistant turn is added, agent_reply
\* is sent, and the call session.speak_text(reply, voice_id=tts_voice)
\* raises TypeError inside the try, so the except branch sends an error
H_llm_return ==
    /\ hpc = "llm"
    /\ speak_text_call_raises
    /\ conversation' = Conv_add_turn(conversation, "assistant")
    /\ hlog' = [hlog EXCEPT
                  !.replies = @ \o <<Reply("agent_reply", ""),
                                     Reply("error", "LLM error")>>,
                  !.llm = "ok"]
    /\ hpc' = "loop"
    /\ UNCHANGED <<session, ws_closed, inbox>>

\* llm_generate raises: the except branch sends the error
H_llm_raise ==
    /\ hpc = "llm"
    /\ hlog' = [hlog EXCEPT
                  !.replies = @ \o <<Reply("error", "LLM error")>>,
                  !.llm = "failed"]
    /\ hpc' = "loop"
    /\ UNCHANGED <<session, conversation, ws_closed, inbox>>

H_ping ==
    \E m \in MsgsOf("ping") :
        /\ Reads(m)
        /\ Continue(m, <<Reply("pong", "")>>)
        /\ UNCHANGED <<session, conversation>>

H_unknown ==
    \E m \in MsgsOf("bogus") :
        /\ Reads(m)
        /\ Continue(m, <<Reply("error", "Unknown type")>>)
        /\ UNCHANGED <<session, conversation>>

\* the client closes the socket: the loop ends and the cleanup runs
H_disconnect ==
    /\ hpc = "loop"
    /\ inbox = <<>>
    /\ session' = Cleanup(session)
    /\ hpc' = "returned"
    /\ hlog' = Taken([type |-> "CLOSE"])
    /\ UNCHANGED <<ws_closed, inbox, conversation>>

\* a stop_speaking message has arrived and is unread while the handler is
\* inside its speak branch or inside an agent turn
StopSpeakingWaits ==
    /\ hpc # "loop"
    /\ hlog.msg.type \in {"speak", "mic_stop"}
    /\ CountType(inbox, "stop_speaking") > 0

\* the messages a client sends without waiting for the server: the barge-in
\* and the keep-alive
LateMsgs == MsgsOf("stop_speaking") \cup MsgsOf("ping")

\* a message arrives while the handler is not reading
W_arrive(m) ==
    /\ hpc # "loop"
    /\ Len(inbox) < MaxInbox
    /\ inbox' = Append(inbox, m)
    /\ UNCHANGED <<hpc, ws_closed, conversation, agent_mode, hlog, session>>

\* aiortc asks the session's track for a frame; stop_wait counts the frames
\* with sound made while a stop_speaking message waits unread
W_recv ==
    /\ session # NoSession
    /\ ~session.closed
    /\ session.audio_source.frame_count < MaxWsFrames
    /\ LET r == Src_recv(session.audio_source, session.audio_queue)
       IN  /\ session' = [session EXCEPT !.audio_source = r.src,
                                         !.audio_queue = r.q]
           /\ hlog' = [hlog EXCEPT
                         !.stop_wait = IF /\ StopSpeakingWaits
                                          /\ r.frame.samples # Zeros(FrameBytes)
                                       THEN @ + 1 ELSE @]
    /\ UNCHANGED <<hpc, ws_closed, inbox, conversation, agent_mode>>

\* the browser's mic track delivers a frame to _recv_mic_audio
W_mic_frame ==
    /\ session # NoSession
    /\ session.mic_recv_task = "live"
    /\ hlog.mic_seq < MaxMicFrames
    /\ session' = Session_mic_frame(session, hlog.mic_seq + 1)
    /\ hlog' = [hlog EXCEPT !.mic_seq = @ + 1]
    /\ UNCHANGED <<hpc, ws_closed, inbox, conversation, agent_mode>>

WNext ==
    \/ (H_binary /\ UNCHANGED <<orchVars, thrVars, recVars, ctlVars, ringVars, queueVars, speaks, slog, agent_mode>>)
    \/ (H_invalid_json /\ UNCHANGED <<orchVars, thrVars, recVars, ctlVars, ringVars, queueVars, speaks, slog, agent_mode>>)
    \/ (H_not_an_object /\ UNCHANGED <<orchVars, thrVars, recVars, ctlVars, ringVars, queueVars, speaks, slog, agent_mode>>)
    \/ (H_hello /\ UNCHANGED <<orchVars, thrVars, recVars, ctlVars, ringVars, queueVars, speaks, slog, agent_mode>>)
    \/ (H_webrtc_offer /\ UNCHANGED <<orchVars, thrVars, recVars, ctlVars, ringVars, queueVars, speaks, slog, agent_mode>>)
    \/ (H_start /\ UNCHANGED <<orchVars, thrVars, recVars, ctlVars, ringVars, queueVars, speaks, slog, agent_mode>>)
    \/ (H_stop /\ UNCHANGED <<orchVars, thrVars, recVars, ctlVars, ringVars, queueVars, speaks, slog, agent_mode>>)
    \/ (H_speak /\ UNCHANGED <<orchVars, thrVars, recVars, ctlVars, ringVars, queueVars, speaks, slog, agent_mode>>)
    \/ (H_stop_speaking /\ UNCHANGED <<orchVars, thrVars, recVars, ctlVars, ringVars, queueVars, speaks, slog, agent_mode>>)
    \/ (H_mic_start /\ UNCHANGED <<orchVars, thrVars, recVars, ctlVars, ringVars, queueVars, speaks, slog, agent_mode>>)
    \/ (H_mic_stop /\ UNCHANGED <<orchVars, thrVars, recVars, ctlVars, ringVars, queueVars, speaks, slog, agent_mode>>)
    \/ (\E heard \in BOOLEAN : H_stt_return(heard)
                                /\ UNCHANGED <<orchVars, thrVars, recVars, ctlVars, ringVars, queueVars, speaks, slog, agent_mode>>)
    \/ (H_llm_return /\ UNCHANGED <<orchVars, thrVars, recVars, ctlVars, ringVars, queueVars, speaks, slog, agent_mode>>)
    \/ (H_llm_raise /\ UNCHANGED <<orchVars, thrVars, recVars, ctlVars, ringVars, queueVars, speaks, slog, agent_mode>>)
    \/ (H_ping /\ UNCHANGED <<orchVars, thrVars, recVars, ctlVars, ringVars, queueVars, speaks, slog, agent_mode>>)
    \/ (H_unknown /\ UNCHANGED <<orchVars, thrVars, recVars, ctlVars, ringVars, queueVars, speaks, slog, agent_mode>>)
    \/ (H_disconnect /\ UNCHANGED <<orchVars, thrVars, recVars, ctlVars, ringVars, queueVars, speaks, slog, agent_mode>>)
    \/ (\E m \in LateMsgs : W_arrive(m) /\ UNCHANGED <<orchVars, thrVars, recVars, ctlVars, ringVars, queueVars, speaks, slog>>)
    \/ (W_recv /\ UNCHANGED <<orchVars, thrVars, recVars, ctlVars, ringVars, queueVars, speaks, slog>>)
    \/ (W_mic_frame /\ UNCHANGED <<orchVars, thrVars, recVars, ctlVars, ringVars, queueVars, speaks, slog>>)

SpecWS == WInit /\ [][WNext]_vars

----------------------------------------------------------------------------
(* C3: a stop_speaking message that arrives while the handler is inside a   *)
(* speak or an agent turn takes effect at once: the track is silent within  *)
(* two frames of its arrival, so at most two frames with sound are made     *)
(* while it waits.                                                          *)

C3_StopSpeakingTakesEffectMidSpeak == hlog.stop_wait <= 2

----------------------------------------------------------------------------
(* C4: after a speak message with non-empty text on a connection that has  *)
(* a session, speak_text has run: the queued generator is attached and the  *)
(* message loop goes on with the socket open.                               *)

C4_SpeakEnqueuesSentences ==
    (/\ hlog.msg.type = "speak"
     /\ hlog.had_session
     /\ Strip(hlog.msg.text) # <<>>)
    => /\ hpc = "loop"
       /\ ~ws_closed
       /\ session.audio_source.generator = "tts"

----------------------------------------------------------------------------
(* C5: a finished mic_stop on a connection with a session sent exactly one *)
(* final transcription; after a reply of the language model it sent        *)
(* agent_thinking and agent_reply and nothing more, and the reply is being *)
(* spoken; with no text heard it sent no agent message.                    *)

C5_MicStopReplies ==
    (/\ hlog.msg.type = "mic_stop"
     /\ hlog.had_session
     /\ hpc = "loop")
    => /\ hlog.replies # <<>>
       /\ hlog.replies[1] = Reply("transcription", "final")
       /\ \A i \in 2..Len(hlog.replies) : hlog.replies[i].type # "transcription"
       /\ hlog.llm = "ok" =>
             /\ hlog.replies = <<Reply("transcription", "final"),
                                 Reply("agent_thinking", ""),
                                 Reply("agent_reply", "")>>
             /\ session.audio_source.generator = "tts"
       /\ hlog.llm = "none" => Len(hlog.replies) = 1

----------------------------------------------------------------------------
(* C6: a hello with a wrong token is answered by exactly one error, the    *)
(* socket is closed, the handler has returned and handles no message after *)
(* it; a hello with the shared token is answered by exactly one hello_ack  *)
(* and the socket stays open.                                              *)

C6_HelloState ==
    hlog.msg.type = "hello" =>
        IF hlog.msg.token # AUTH_TOKEN
        THEN /\ hlog.replies = <<Reply("error", "Bad token")>>
             /\ ws_closed
             /\ hpc = "returned"
        ELSE /\ hlog.replies = <<Reply("hello_ack", "")>>
             /\ ~ws_closed
             /\ hpc = "loop"

C6_HelloStep ==
    (hlog.msg.type = "hello" /\ hlog.msg.token # AUTH_TOKEN)
    => /\ hlog'.msg = hlog.msg
       /\ hlog'.replies = hlog.replies
       /\ hpc' = hpc
       /\ ws_closed' = ws_closed

C6_HelloToken == [](C6_HelloState) /\ [][C6_HelloStep]_vars

\* the handler returned on a bad token, closed the session the connection
\* had, and a message that arrived after the hello stays unread
C6_Witness ==
    /\ hlog.msg.type = "hello"
    /\ hlog.msg.token # AUTH_TOKEN
    /\ hpc = "returned"
    /\ inbox # <<>>
    /\ session # NoSession

\* a hello with the shared token was acknowledged
C6_WitnessAck ==
    /\ hlog.msg.type = "hello"
    /\ hlog.msg.token = AUTH_TOKEN
    /\ hlog.replies = <<Reply("hello_ack", "")>>

----------------------------------------------------------------------------
(* C7: a connection creates at most one Session over its lifetime.         *)

C7_AtMostOneSession == hlog.created <= 1

----------------------------------------------------------------------------
(* C8: when the handler has ended, by disconnect, by the bad-token close   *)
(* or by an exception, the session of the connection, if one was created,  *)
(* has been closed.                                                        *)

C8_SessionClosedAtEnd ==
    (hpc \in {"returned", "raised"} /\ hlog.created > 0) => session.closed

----------------------------------------------------------------------------
(* C9: a client protocol error (invalid JSON, unknown type, start with an  *)
(* unknown voice, webrtc_offer without sdp) is answered by one error and   *)
(* the loop goes on with the socket open; the handler ends the connection  *)
(* itself only after a hello with a bad token.                             *)

ProtocolError(m) ==
    \/ m.type \in {"INVALID_JSON", "bogus"}
    \/ (m.type = "start" /\ m.voice_id \notin VOICE_FREQ)
    \/ (m.type = "webrtc_offer" /\ m.sdp = "")

C9_ProtocolErrorsKeepSocketOpen ==
    /\ ProtocolError(hlog.msg) =>
          /\ hpc = "loop"
          /\ ~ws_closed
          /\ Len(hlog.replies) = 1
          /\ hlog.replies[1].type = "error"
    /\ (hpc \in {"returned", "raised"} /\ hlog.msg.type # "CLOSE") =>
          (hlog.msg.type = "hello" /\ hlog.msg.token # AUTH_TOKEN)

----------------------------------------------------------------------------
(* C10: when the language model call of an agent turn fails, the server    *)
(* has sent the transcription, agent_thinking and one "LLM error" error,   *)
(* no agent_reply, the socket is open and the loop goes on, and the        *)
(* history is the one the call was issued with: it ends with the user turn *)
(* and has no assistant turn for this call.                                *)

C10_LlmFailureKeepsHistory ==
    hlog.llm = "failed" =>
        /\ hlog.replies = <<Reply("transcription", "final"),
                            Reply("agent_thinking", ""),
                            Reply("error", "LLM error")>>
        /\ hpc = "loop"
        /\ ~ws_closed
        /\ conversation = hlog.hist_at_call
        /\ conversation # <<>>
        /\ conversation[Len(conversation)] = "user"

\* a second agent turn failed after a first one that was answered
C10_Witness ==
    /\ hlog.llm = "failed"
    /\ Len(conversation) = 3
    /\ conversation[2] = "assistant"

----------------------------------------------------------------------------
(* Orchestrator._trim_history (voice_assistant/orchestrator.py).  A        *)
(* message is its kind: "user", "assistant" (text only), "assistant_tc"    *)
(* (an assistant message with tool_calls) or "tool".                       *)

MsgKinds == {"user", "assistant", "assistant_tc", "tool"}

\* msg.get("role")
Role(m) == IF m = "assistant_tc" THEN "assistant" ELSE m

\* msg.get("tool_calls") is a non-empty list
HasToolCalls(m) == m = "assistant_tc"

\* `while cut < len(messages) and messages[cut].role == "tool": cut += 1`
\* (cut counts the messages dropped: Python's messages[cut] is msgs[cut + 1])
RECURSIVE AdvancePastTools(_, _)
AdvancePastTools(msgs, cut) ==
    IF cut < Len(msgs) /\ Role(msgs[cut + 1]) = "tool"
    THEN AdvancePastTools(msgs, cut + 1)
    ELSE cut

\* `while cut > 0 and messages[cut - 1].role == "tool": cut -= 1`
RECURSIVE BackOverTools(_, _)
BackOverTools(msgs, cut) ==
    IF cut > 0 /\ Role(msgs[cut]) = "tool"
    THEN BackOverTools(msgs, cut - 1)
    ELSE cut

\* the cut point _trim_history computes for a history above the limit
Trim_cut(msgs, limit) ==
    LET c0 == Len(msgs) - limit
        c1 == AdvancePastTools(msgs, c0)
    IN  IF c1 > 0 /\ HasToolCalls(msgs[c1])
        THEN BackOverTools(msgs, c1 - 1)
        ELSE c1

Trim_history(msgs, limit) ==
    IF Len(msgs) <= limit
    THEN msgs
    ELSE SubSeq(msgs, Trim_cut(msgs, limit) + 1, Len(msgs))

OLogInit == [op |-> "new", before |-> <<>>]

TInit ==
    /\ queue = AQ_new
    /\ qlog = QLogInit
    /\ session = "None"
    /\ speaks = <<>>
    /\ slog = "None"
    /\ hpc = "None"
    /\ ws_closed = FALSE
    /\ inbox = <<>>
    /\ conversation = <<>>
    /\ agent_mode = FALSE
    /\ hlog = "None"
    /\ orch = [messages |-> <<>>]
    /\ olog = OLogInit
    /\ thr = "None"
    /\ lock = "free"
    /\ tasks = <<>>
    /\ rcall = "None"
    /\ rlog = "None"
    /\ conn = "None"
    /\ pulls = <<>>
    /\ ring = "None"
    /\ nlog = "None"

\* self.messages.append(msg), as chat() does before it trims
TAppend(m) ==
    /\ olog.op = "new"
    /\ Len(orch.messages) < MaxHistory
    /\ orch' = [orch EXCEPT !.messages = Append(@, m)]
    /\ UNCHANGED olog

TTrim ==
    /\ olog.op = "new"
    /\ orch' = [orch EXCEPT
                  !.messages = Trim_history(@, max_history_messages)]
    /\ olog' = [op |-> "trim", before |-> orch.messages]

TNext ==
    \/ (\E m \in MsgKinds : TAppend(m))
          /\ UNCHANGED <<queueVars, sessVars, wsVars, thrVars, recVars, ctlVars, ringVars>>
    \/ TTrim /\ UNCHANGED <<queueVars, sessVars, wsVars, thrVars, recVars, ctlVars, ringVars>>

SpecTrim == TInit /\ [][TNext]_vars

\* every tool message of the history answers an assistant message with
\* tool_calls: it follows one, or follows another tool message
ToolsAnswerCalls(msgs) ==
    \A i \in 1..Len(msgs) :
        Role(msgs[i]) = "tool" =>
            /\ i > 1
            /\ (HasToolCalls(msgs[i - 1]) \/ Role(msgs[i - 1]) = "tool")

\* the number of messages the last trim dropped
Dropped == Len(olog.before) - Len(orch.messages)

\* the last of the tool messages that immediately follow position i
RECURSIVE GroupEnd(_, _)
GroupEnd(msgs, i) ==
    IF i < Len(msgs) /\ Role(msgs[i + 1]) = "tool"
    THEN GroupEnd(msgs, i + 1)
    ELSE i

----------------------------------------------------------------------------
(* C11: after _trim_history on a history longer than the limit, in which   *)
(* every tool message answers a call, the first message kept is not a tool *)
(* message, and no tool group is split: an assistant message with          *)
(* tool_calls that is followed by tool messages is dropped only together   *)
(* with all of them.                                                       *)

C11_TrimKeepsToolGroups ==
    (/\ olog.op = "trim"
     /\ Len(olog.before) > max_history_messages
     /\ ToolsAnswerCalls(olog.before)) =>
        /\ orch.messages # <<>> => Role(orch.messages[1]) # "tool"
        /\ \A i \in 1..Len(olog.before) :
              HasToolCalls(olog.before[i]) =>
                  ~(i <= Dropped /\ Dropped < GroupEnd(olog.before, i))

----------------------------------------------------------------------------
(* dispatch_tool_call (voice_assistant/tool_router.py).                    *)

\* the registered tools; any other name is unknown
TOOL_REGISTRY == {"web_search", "check_calendar", "search_notes"}

ToolNames == TOOL_REGISTRY \cup {"nope"}

\* what `args` can be: a dict, a JSON string of an object, a JSON string of
\* something else, a string that is not JSON, a value that is neither
ArgKinds == {"dict", "json_object", "json_other", "json_bad", "other"}

IsStr(args) == args \in {"json_object", "json_other", "json_bad"}

\* how the looked-up tool behaves: whether it declares an input model,
\* whether the arguments validate, whether execute returns or raises
ToolBehaviours ==
    [input_model : BOOLEAN, valid : BOOLEAN, raises : BOOLEAN]

\* the result of a call: the string returned, by its kind, and whether
\* tool.execute ran
DispatchResult(kind, executed) == [returns |-> kind, executed |-> executed]

\* a mutant: the arguments are not validated before execute
Dispatch_validate_skipped(b) == TRUE

\* `tool.input_model(**args)` succeeds, or there is no input model
Dispatch_validate(b) == ~b.input_model \/ b.valid

dispatch_tool_call(name, args, b) ==
    IF args = "json_bad"
    THEN DispatchResult("Error: invalid JSON arguments", FALSE)
    ELSE IF name \notin TOOL_REGISTRY
    THEN DispatchResult("Error: unknown tool", FALSE)
    ELSE IF ~Dispatch_validate(b)
    THEN DispatchResult("Error: invalid arguments", FALSE)
    ELSE IF b.raises
    THEN DispatchResult("Error executing", TRUE)
    ELSE DispatchResult("result", TRUE)

DLogInit ==
    [op |-> "new", name |-> "none", args |-> "none",
     b |-> [input_model |-> FALSE, valid |-> FALSE, raises |-> FALSE],
     result |-> DispatchResult("none", FALSE), calls |-> 0]

DInit ==
    /\ queue = AQ_new
    /\ qlog = QLogInit
    /\ session = "None"
    /\ speaks = <<>>
    /\ slog = "None"
    /\ hpc = "None"
    /\ ws_closed = FALSE
    /\ inbox = <<>>
    /\ conversation = <<>>
    /\ agent_mode = FALSE
    /\ hlog = "None"
    /\ orch = "None"
    /\ olog = DLogInit
    /\ thr = "None"
    /\ lock = "free"
    /\ tasks = <<>>
    /\ rcall = "None"
    /\ rlog = "None"
    /\ conn = "None"
    /\ pulls = <<>>
    /\ ring = "None"
    /\ nlog = "None"

\* one call dispatch_tool_call(name, args) that finds a tool behaving as b
DDispatch(name, args, b) ==
    /\ olog.calls < MaxDispatch
    /\ olog' = [op |-> "dispatch", name |-> name, args |-> args, b |-> b,
                result |-> dispatch_tool_call(name, args, b),
                calls |-> olog.calls + 1]
    /\ UNCHANGED orch

DNext ==
    (\E name \in ToolNames, args \in ArgKinds, b \in ToolBehaviours :
        DDispatch(name, args, b))
    /\ UNCHANGED <<queueVars, sessVars, wsVars, thrVars, recVars, ctlVars, ringVars>>

SpecDispatch == DInit /\ [][DNext]_vars

----------------------------------------------------------------------------
(* Orchestrator.chat (voice_assistant/orchestrator.py).                    *)

\* the message _call_ollama returns: its content after _strip_thinking
\* ("": nothing left, "text": an answer, "text_with_call": text in which
\* _parse_text_tool_calls finds a call) and the number of its native
\* tool_calls; what each native call asks for is drawn when it is handled
Responses ==
    [content : {"", "text", "text_with_call"},
     tool_calls : 0..MaxToolCalls]

\* the tool calls chat() goes on with (lines 267-278), each by where it
\* came from, and the text
Resp_tool_calls(r) ==
    IF r.tool_calls = 0
    THEN IF r.content = "text_with_call" THEN <<"parsed">> ELSE <<>>
    ELSE [i \in 1..r.tool_calls |-> "native"]

Resp_text(r) ==
    IF r.tool_calls = 0 /\ r.content = "text_with_call"
    THEN ""
    ELSE r.content

\* the arguments of a call: _parse_text_tool_calls gives the parsed JSON
\* object, a native call gives whatever the model sent
ArgsOf(origin, args) ==
    IF origin = "parsed" THEN args = "dict" ELSE args \in ArgKinds

\* a mutant: every request carries the tools
Tools_for_call_always(iteration) == TRUE

\* `tools_for_call = None if is_last else tool_schemas`, as "carries tools"
Tools_for_call(iteration) == iteration # max_tool_calls_per_turn - 1

\* main.py's on_tool_call formats args.items() when args is truthy: it can
\* raise only for arguments that are not a mapping (it does for a non-empty
\* string, it does not for None)
Callback_can_raise(cb, args) == cb = "main" /\ args # "dict"

\* a mutant of the text branch: the reply is appended whatever its text
Chat_text_reply_always(msgs, text) == Append(msgs, "assistant")

\* `if text: self.messages.append(...)`, the history after a reply with no
\* tool call
Chat_text_reply(msgs, text) ==
    IF text # "" THEN Append(msgs, "assistant") ELSE msgs

OrchInit ==
    [messages |-> <<>>, all_messages |-> <<>>, pc |-> "idle",
     iteration |-> 0, pending |-> <<>>, text |-> "", callback |-> "None",
     chats |-> 0]

CLogInit == [op |-> "new", requests |-> <<>>, ret |-> "none"]

CInit ==
    /\ queue = AQ_new
    /\ qlog = QLogInit
    /\ session = "None"
    /\ speaks = <<>>
    /\ slog = "None"
    /\ hpc = "None"
    /\ ws_closed = FALSE
    /\ inbox = <<>>
    /\ conversation = <<>>
    /\ agent_mode = FALSE
    /\ hlog = "None"
    /\ orch = OrchInit
    /\ olog = CLogInit
    /\ thr = "None"
    /\ lock = "free"
    /\ tasks = <<>>
    /\ rcall = "None"
    /\ rlog = "None"
    /\ conn = "None"
    /\ pulls = <<>>
    /\ ring = "None"
    /\ nlog = "None"

\* chat(user_input, on_tool_call) up to the loop: append, trim, copy
ChatBegin(cb) ==
    /\ orch.pc \in {"idle", "done", "raised"}
    /\ orch.chats < MaxChats
    /\ LET msgs == Trim_history(Append(orch.messages, "user"),
                                max_history_messages)
       IN  orch' = [orch EXCEPT !.messages = msgs,
                                !.all_messages = <<"system">> \o msgs,
                                !.pc = "request",
                                !.iteration = 0,
                                !.pending = <<>>,
                                !.text = "",
                                !.callback = cb,
                                !.chats = @ + 1]
    /\ olog' = [CLogInit EXCEPT !.op = "chat"]

\* the head of one iteration: the request goes out, or the range is used up
\* and chat returns the fallback
ChatRequest ==
    /\ orch.pc = "request"
    /\ IF orch.iteration < max_tool_calls_per_turn
       THEN /\ orch' = [orch EXCEPT !.pc = "await"]
            /\ olog' = [olog EXCEPT
                          !.requests = Append(@,
                              [tools |-> Tools_for_call(orch.iteration),
                               messages |-> Len(orch.all_messages)])]
       ELSE /\ orch' = [orch EXCEPT !.pc = "done"]
            /\ olog' = [olog EXCEPT
                          !.ret = IF orch.text # "" THEN "text"
                                  ELSE "fallback"]

\* _call_ollama returns r
ChatResponse(r) ==
    /\ orch.pc = "await"
    /\ LET tcs == Resp_tool_calls(r)
           text == Resp_text(r)
       IN  IF tcs = <<>>
           THEN /\ orch' = [orch EXCEPT
                              !.messages = Chat_text_reply(@, text),
                              !.text = IF text = "" THEN "" ELSE "text",
                              !.pc = "done"]
                /\ olog' = [olog EXCEPT !.ret = IF text # "" THEN "text"
                                                 ELSE "empty"]
           ELSE /\ orch' = [orch EXCEPT
                              !.messages = Append(@, "assistant_tc"),
                              !.all_messages = Append(@, "assistant_tc"),
                              !.text = IF text = "" THEN "" ELSE "text",
                              !.pending = tcs,
                              !.pc = "tools"]
                /\ UNCHANGED olog

\* _call_ollama raises (no connection, HTTP error status)
ChatRequestFails ==
    /\ orch.pc = "await"
    /\ orch' = [orch EXCEPT !.pc = "raised"]
    /\ olog' = [olog EXCEPT !.ret = "raised"]

\* one tool call of the response: the callback, the dispatch (which gives a
\* string whatever it is asked), the tool message; after the last one the
\* next iteration starts
ChatToolCall(args, cb_raises) ==
    /\ orch.pc = "tools"
    /\ ArgsOf(Head(orch.pending), args)
    /\ cb_raises => Callback_can_raise(orch.callback, args)
    /\ LET rest == Tail(orch.pending)
       IN  IF cb_raises
           THEN /\ orch' = [orch EXCEPT !.pc = "raised"]
                /\ olog' = [olog EXCEPT !.ret = "raised"]
           ELSE /\ orch' = [orch EXCEPT
                              !.messages = Append(@, "tool"),
                              !.all_messages = Append(@, "tool"),
                              !.pending = rest,
                              !.iteration = IF rest = <<>> THEN @ + 1 ELSE @,
                              !.pc = IF rest = <<>> THEN "request" ELSE "tools"]
                /\ UNCHANGED olog

\* the steps inside a call of chat()
CStep ==
    \/ ChatRequest /\ UNCHANGED <<queueVars, sessVars, wsVars, thrVars, recVars, ctlVars, ringVars>>
    \/ (\E r \in Responses : ChatResponse(r))
          /\ UNCHANGED <<queueVars, sessVars, wsVars, thrVars, recVars, ctlVars, ringVars>>
    \/ ChatRequestFails /\ UNCHANGED <<queueVars, sessVars, wsVars, thrVars, recVars, ctlVars, ringVars>>
    \/ (\E args \in ArgKinds, cb_raises \in BOOLEAN :
            ChatToolCall(args, cb_raises))
          /\ UNCHANGED <<queueVars, sessVars, wsVars, thrVars, recVars, ctlVars, ringVars>>

CNext ==
    \/ (\E cb \in {"None", "main"} : ChatBegin(cb))
          /\ UNCHANGED <<queueVars, sessVars, wsVars, thrVars, recVars, ctlVars, ringVars>>
    \/ CStep

SpecChat == CInit /\ [][CNext]_vars

\* the steps a running chat() has left at most: the iterations of the
\* range not yet started, each with its request, its response and its tool
\* calls, and what is left of the current one
ChatStepsLeft(o) ==
    LET perIteration == MaxToolCalls + 3
        left == (max_tool_calls_per_turn - o.iteration) * perIteration
    IN  CASE o.pc = "request" -> left + 1
          [] o.pc = "await" -> left
          [] o.pc = "tools" -> left - 1 - MaxToolCalls + Len(o.pending)
          [] OTHER -> 0

----------------------------------------------------------------------------
(* C12: a call of chat() sends at most max_tool_calls_per_turn requests to *)
(* the model and then ends; the request of the last iteration carries no   *)
(* tools and every earlier request carries them.  It ends because every    *)
(* step of the call uses up one of a bounded number of steps.              *)

C12_RequestsBounded ==
    /\ Len(olog.requests) <= max_tool_calls_per_turn
    /\ \A i \in 1..Len(olog.requests) :
          olog.requests[i].tools = (i - 1 # max_tool_calls_per_turn - 1)

\* every step of a running chat() uses up one of the steps it has left
C12_ChatProgress ==
    orch.pc \in {"request", "await", "tools"} =>
        /\ ChatStepsLeft(orch) > 0
        /\ ChatStepsLeft(orch') < ChatStepsLeft(orch)
        /\ ChatStepsLeft(orch') >= 0

C12_ChatTerminates ==
    [](C12_RequestsBounded) /\ [][C12_ChatProgress]_vars

\* a chat in which the model asked for tools in every iteration, the last
\* one included, has returned
C12_Witness ==
    /\ orch.pc = "done"
    /\ Len(olog.requests) = max_tool_calls_per_turn
    /\ olog.ret \in {"fallback", "text"}
    /\ orch.iteration = max_tool_calls_per_turn

----------------------------------------------------------------------------
(* C13: dispatch_tool_call always returns a string; malformed JSON         *)
(* arguments, an unknown tool, a validation failure and a tool exception   *)
(* each give an error string, and after a validation failure the tool has  *)
(* not been executed.                                                      *)

ErrorStrings ==
    {"Error: invalid JSON arguments", "Error: unknown tool",
     "Error: invalid arguments", "Error executing"}

C13_DispatchNeverRaises ==
    olog.op = "dispatch" =>
        LET r == olog.result
            known == olog.name \in TOOL_REGISTRY
            parsed == olog.args # "json_bad"
            invalid == olog.b.input_model /\ ~olog.b.valid
        IN  /\ r.returns \in ErrorStrings \cup {"result"}
            /\ ~parsed => (r.returns \in ErrorStrings /\ ~r.executed)
            /\ ~known => (r.returns \in ErrorStrings /\ ~r.executed)
            /\ (known /\ parsed /\ invalid) =>
                  (r.returns = "Error: invalid arguments" /\ ~r.executed)
            /\ (known /\ parsed /\ ~invalid /\ olog.b.raises) =>
                  (r.returns = "Error executing" /\ r.executed)
            /\ (known /\ parsed /\ ~invalid /\ ~olog.b.raises) =>
                  (r.returns = "result" /\ r.executed)

\* a known tool was called with arguments given as a JSON string that its
\* input model rejects, and execute would have raised
C13_Witness ==
    /\ olog.op = "dispatch"
    /\ olog.name \in TOOL_REGISTRY
    /\ olog.args = "json_object"
    /\ olog.b.input_model /\ ~olog.b.valid /\ olog.b.raises
    /\ olog.calls = MaxDispatch

----------------------------------------------------------------------------
(* AudioQueue under threads (gateway/audio/audio_queue.py): producer       *)
(* threads call enqueue, one consumer calls read, available and clear.     *)
(* Every body runs inside `with self._lock`.                               *)

Producers == {"p1", "p2"}
Consumer == "c"
Threads == Producers \cup {Consumer}

\* a mutant: the lock never makes a thread wait
Lock_free_always(l) == TRUE

\* threading.Lock: acquire goes through only while nobody holds it
Lock_free(l) == l = "free"

\* the blob a producer hands over: k bytes that carry the producer's mark
ProducerByte(t) == IF t = "p1" THEN 0 ELSE 1

Blob(t, k) == [i \in 1..k |-> ProducerByte(t)]

ThreadIdle == [pc |-> "idle", op |-> "none", data |-> <<>>, n |-> 0]

\* the bytes the queue still holds, in the order read() gives them
AQ_remaining(q) ==
    SubSeq(q.current, q.offset + 1, Len(q.current)) \o Concat(q.chunks)

\* order: the blobs in the order their enqueue took the lock, since the
\* last clear; got: the bytes read() took from the queue since then;
\* ret, seen: what the last available returned and the bytes queued then
KLogInit ==
    [order |-> <<>>, got |-> <<>>, nEnq |-> 0, nRead |-> 0, ret |-> 0,
     seen |-> <<>>, last |-> "new"]

KInit ==
    /\ queue = AQ_new
    /\ qlog = KLogInit
    /\ session = "None"
    /\ speaks = <<>>
    /\ slog = "None"
    /\ hpc = "None"
    /\ ws_closed = FALSE
    /\ inbox = <<>>
    /\ conversation = <<>>
    /\ agent_mode = FALSE
    /\ hlog = "None"
    /\ orch = "None"
    /\ olog = "None"
    /\ thr = [t \in Threads |-> ThreadIdle]
    /\ lock = "free"
    /\ tasks = <<>>
    /\ rcall = "None"
    /\ rlog = "None"
    /\ conn = "None"
    /\ pulls = <<>>
    /\ ring = "None"
    /\ nlog = "None"

\* a producer calls enqueue(data): an empty blob returns before the lock
K_call_enqueue(t, data) ==
    /\ t \in Producers
    /\ thr[t].pc = "idle"
    /\ qlog.nEnq < MaxEnq
    /\ thr' = [thr EXCEPT ![t] =
                 IF data = <<>> THEN ThreadIdle
                 ELSE [pc |-> "want", op |-> "enqueue", data |-> data,
                       n |-> 0]]
    /\ qlog' = [qlog EXCEPT !.nEnq = @ + 1]
    /\ UNCHANGED <<queue, lock>>

K_call_read(n) ==
    /\ thr[Consumer].pc = "idle"
    /\ qlog.nRead < MaxReads
    /\ thr' = [thr EXCEPT ![Consumer] =
                 [pc |-> "want", op |-> "read", data |-> <<>>, n |-> n]]
    /\ qlog' = [qlog EXCEPT !.nRead = @ + 1]
    /\ UNCHANGED <<queue, lock>>

K_call_available ==
    /\ thr[Consumer].pc = "idle"
    /\ qlog.last # "available"
    /\ thr' = [thr EXCEPT ![Consumer] =
                 [pc |-> "want", op |-> "available", data |-> <<>>, n |-> 0]]
    /\ UNCHANGED <<queue, qlog, lock>>

K_call_clear ==
    /\ thr[Consumer].pc = "idle"
    /\ qlog.last # "clear"
    /\ thr' = [thr EXCEPT ![Consumer] =
                 [pc |-> "want", op |-> "clear", data |-> <<>>, n |-> 0]]
    /\ UNCHANGED <<queue, qlog, lock>>

\* `with self._lock:` entered
K_acquire(t) ==
    /\ thr[t].pc = "want"
    /\ Lock_free(lock)
    /\ lock' = t
    /\ thr' = [thr EXCEPT ![t].pc = "in"]
    /\ qlog' = [qlog EXCEPT
                  !.order = IF thr[t].op = "enqueue"
                            THEN Append(@, thr[t].data) ELSE @]
    /\ UNCHANGED queue

\* the body of the call, under the lock
K_body(t) ==
    /\ thr[t].pc = "in"
    /\ thr' = [thr EXCEPT ![t].pc = "out"]
    /\ CASE thr[t].op = "enqueue" ->
              /\ queue' = AQ_enqueue(queue, thr[t].data)
              /\ qlog' = [qlog EXCEPT !.ret = 0, !.seen = <<>>,
                                      !.last = "enqueue"]
         [] thr[t].op = "read" ->
              LET r == AQ_read(queue, thr[t].n)
                  real == Min(thr[t].n, AQ_available(queue))
              IN  /\ queue' = r.q
                  /\ qlog' = [qlog EXCEPT
                                !.got = @ \o SubSeq(r.out, 1, real),
                                !.ret = 0, !.seen = <<>>,
                                !.last = "read"]
         [] thr[t].op = "available" ->
              /\ qlog' = [qlog EXCEPT !.ret = AQ_available(queue),
                                      !.seen = AQ_remaining(queue),
                                      !.last = "available"]
              /\ UNCHANGED queue
         [] thr[t].op = "clear" ->
              /\ queue' = AQ_clear(queue)
              /\ qlog' = [qlog EXCEPT
                            !.order = <<>>,
                            !.got = <<>>,
                            !.ret = 0, !.seen = <<>>,
                            !.last = "clear"]
    /\ UNCHANGED lock

\* the `with` block is left and the call returns
K_release(t) ==
    /\ thr[t].pc = "out"
    /\ lock' = "free"
    /\ thr' = [thr EXCEPT ![t] = ThreadIdle]
    /\ UNCHANGED <<queue, qlog>>

KNext ==
    \/ (\E t \in Producers, k \in 0..MaxBlobLen :
            K_call_enqueue(t, Blob(t, k)))
          /\ UNCHANGED <<sessVars, wsVars, orchVars, recVars, ctlVars, ringVars>>
    \/ (\E n \in 0..MaxReadLen : K_call_read(n))
          /\ UNCHANGED <<sessVars, wsVars, orchVars, recVars, ctlVars, ringVars>>
    \/ K_call_available /\ UNCHANGED <<sessVars, wsVars, orchVars, recVars, ctlVars, ringVars>>
    \/ K_call_clear /\ UNCHANGED <<sessVars, wsVars, orchVars, recVars, ctlVars, ringVars>>
    \/ (\E t \in Threads : K_acquire(t))
          /\ UNCHANGED <<sessVars, wsVars, orchVars, recVars, ctlVars, ringVars>>
    \/ (\E t \in Threads : K_body(t))
          /\ UNCHANGED <<sessVars, wsVars, orchVars, recVars, ctlVars, ringVars>>
    \/ (\E t \in Threads : K_release(t))
          /\ UNCHANGED <<sessVars, wsVars, orchVars, recVars, ctlVars, ringVars>>

SpecThreads == KInit /\ [][KNext]_vars

\* the blobs whose enqueue has appended: all that took the lock but the one
\* whose body has not run yet
AppliedOrder ==
    LET pending == {t \in Producers : thr[t].pc = "in"}
    IN  SubSeq(qlog.order, 1, Len(qlog.order) - Cardinality(pending))

----------------------------------------------------------------------------
(* C14: with producer threads calling enqueue and one consumer calling     *)
(* read, available and clear, the bodies never overlap, the bytes read     *)
(* followed by the bytes still queued are the blobs, whole and in the      *)
(* order in which their enqueue calls took the lock, since the last clear, *)
(* and available returns the number of bytes queued when it ran.           *)

C14_QueueOpsAtomic ==
    /\ \A t, u \in Threads :
          (thr[t].pc \in {"in", "out"} /\ thr[u].pc \in {"in", "out"}) => t = u
    /\ \A t \in Threads : thr[t].pc \in {"in", "out"} => lock = t
    /\ Concat(AppliedOrder) = qlog.got \o AQ_remaining(queue)
    /\ qlog.last = "available" => qlog.ret = Len(qlog.seen)

\* the consumer has read a part of what was queued and waits for the lock
\* to read again while a producer is under the lock, its blob not yet
\* appended
C14_Witness ==
    /\ \E t \in Producers : thr[t].pc = "in"
    /\ thr[Consumer].pc = "want"
    /\ thr[Consumer].op = "read"
    /\ Len(qlog.got) > 0
    /\ AQ_remaining(queue) # <<>>

----------------------------------------------------------------------------
(* C15: enqueue(b) followed at once by read(len(b)) returns b, whatever    *)
(* the queue held before the enqueue.                                      *)

C15_EnqueueThenReadStep ==
    (/\ qlog.last.op = "enqueue"
     /\ qlog'.last.op = "read"
     /\ qlog'.last.n = qlog.last.n)
    => qlog'.last.out = qlog.last.out

C15_EnqueueThenReadReturnsBlob == [][C15_EnqueueThenReadStep]_vars

(* C15, amended: enqueue(b) on a queue that holds no unread byte, followed *)
(* at once by read(len(b)), returns b.                                     *)

C15_EmptyThenStep ==
    (/\ qlog.last.op = "enqueue"
     /\ qlog.last.avail = 0
     /\ qlog'.last.op = "read"
     /\ qlog'.last.n = qlog.last.n)
    => qlog'.last.out = qlog.last.out

C15_EnqueueOnEmptyThenRead == [][C15_EmptyThenStep]_vars

\* a blob of the greatest length with a byte that is not zero was enqueued
\* on the new queue and the one read that followed returned it
C15_Witness ==
    /\ qlog.last.op = "read"
    /\ qlog.shape = "read"
    /\ qlog.nEnq = 1
    /\ qlog.nRead = 1
    /\ qlog.last.n = MaxBlobLen
    /\ qlog.last.out = qlog.enq
    /\ \E i \in 1..Len(qlog.enq) : qlog.enq[i] # 0
----------------------------------------------------------------------------
(* C16: the k-th frame recv() returns (k counted from 0) has               *)
(* pts = k * FRAME_SAMPLES and holds exactly FRAME_SAMPLES samples, that   *)
(* is FRAME_SAMPLES * 2 bytes, whether the samples are silence, the tone   *)
(* of a sine generator or bytes read from the FIFO, and whatever           *)
(* generator was attached or detached between two frames.                  *)

C16_FramePtsAndSize ==
    slog.op = "recv" =>
        /\ slog.pts = (slog.recvs - 1) * FRAME_SAMPLES
        /\ Len(slog.frame) = FRAME_SAMPLES * 2

\* the last of MaxFrames frames was read from the FIFO, after the tone
\* generator had been attached and replaced
C16_Witness ==
    /\ slog.op = "recv"
    /\ slog.recvs = MaxFrames
    /\ slog.pts > 0
    /\ session.audio_source.generator = "tts"
    /\ session.generator = "sine"
    /\ slog.frame # Zeros(FRAME_SAMPLES * 2)
----------------------------------------------------------------------------
(* C17: set_generator(g) followed by clear_generator() leaves the track    *)
(* source as if no generator had been attached: the source has no          *)
(* generator, its next frame is all zeros, and neither call changes        *)
(* start_time or frame_count.                                              *)

\* this step called set_generator (start_audio, speak_text) or
\* clear_generator (stop_audio, stop_speaking)
C17_Attaches == slog'.op \in {"start_audio", "speak_text"}
C17_Detaches == slog'.op \in {"stop_audio", "stop_speaking"}

C17_ClockKept ==
    (C17_Attaches \/ C17_Detaches) =>
        /\ session'.audio_source.start_time = session.audio_source.start_time
        /\ session'.audio_source.frame_count =
               session.audio_source.frame_count

\* a detach that follows an attach gives back the source as it would be
\* had neither call been made
C17_DetachUndoesAttach ==
    (slog.op \in {"start_audio", "speak_text"} /\ C17_Detaches) =>
        /\ session'.audio_source =
               [session.audio_source EXCEPT !.generator = "None"]
        /\ NextFrame(session') = Zeros(FRAME_SAMPLES * 2)

C17_SilentWithoutGenerator ==
    session.audio_source.generator = "None" =>
        NextFrame(session) = Zeros(FRAME_SAMPLES * 2)

C17_SetThenClearIsNoGenerator ==
    /\ [](C17_SilentWithoutGenerator)
    /\ [][C17_ClockKept /\ C17_DetachUndoesAttach]_vars

\* stop_audio right after start_audio, on a source that has sent a frame
C17_Witness ==
    /\ slog.op = "stop_audio"
    /\ slog.pre_gen = "sine"
    /\ session.audio_source.frame_count > 0
    /\ session.audio_source.start_time = "set"
    /\ session.audio_source.generator = "None"
----------------------------------------------------------------------------
(* C18: within one speak_text call the sentence blobs enter the FIFO in    *)
(* sentence order; the synthesis of sentence i + 1 starts in the step that *)
(* enqueues the blob of sentence i, never before; and a call has at most   *)
(* one synthesis in flight, that of its current sentence.                  *)

\* the speak_text call and the sentence a queued PCM byte belongs to
C18_CallOf(b) == b \div 10
C18_SentenceOf(b) == b % 10

\* the unread bytes of a call are in sentence order, and none belongs to
\* the sentence in flight or to a later one
C18_QueuedInOrder ==
    LET r == AQ_remaining(session.audio_queue)
    IN  /\ \A p, q \in 1..Len(r) :
               (p < q /\ C18_CallOf(r[p]) = C18_CallOf(r[q])) =>
                   C18_SentenceOf(r[p]) <= C18_SentenceOf(r[q])
        /\ \A p \in 1..Len(r) :
               /\ C18_CallOf(r[p]) \in 1..Len(speaks)
               /\ C18_SentenceOf(r[p]) < speaks[C18_CallOf(r[p])].i

\* a call moves to its next sentence only in the step that appends the
\* blob of its current sentence behind everything queued
C18_NextAfterEnqueue ==
    \A c \in 1..Len(speaks) :
        speaks'[c].i # speaks[c].i =>
            /\ speaks[c].pc = "synth"
            /\ speaks'[c].i = speaks[c].i + 1
            /\ \E len \in 0..MaxPcmLen :
                   AQ_remaining(session'.audio_queue) =
                       AQ_remaining(session.audio_queue)
                           \o Pcm(c, speaks[c].i, len)

\* the sentence in flight is one of the call's sentences
C18_OneInFlight ==
    \A c \in 1..Len(speaks) :
        /\ speaks[c].pc = "synth" => speaks[c].i \in 1..speaks[c].n
        /\ speaks[c].pc = "done" =>
               speaks[c].i = (IF speaks[c].n = 0 THEN 1 ELSE speaks[c].n + 1)

C18_SentencesEnqueuedInOrder ==
    /\ [](C18_QueuedInOrder /\ C18_OneInFlight)
    /\ [][C18_NextAfterEnqueue]_vars

\* both blobs of a two-sentence text are queued, the first one ahead
C18_Witness ==
    LET r == AQ_remaining(session.audio_queue)
    IN  /\ \E c \in 1..Len(speaks) : speaks[c].pc = "done" /\ speaks[c].n = 2
        /\ \E p, q \in 1..Len(r) :
               /\ p < q
               /\ C18_CallOf(r[p]) = C18_CallOf(r[q])
               /\ C18_SentenceOf(r[p]) = 1
               /\ C18_SentenceOf(r[q]) = 2
----------------------------------------------------------------------------
(* C19: a stop_speaking() call made right after another stop_speaking()    *)
(* changes nothing: the FIFO contents, the attached generator, the         *)
(* recording state and the rest of the session are what the first call     *)
(* left.                                                                   *)

C19_SecondCallChangesNothing ==
    (slog.op = "stop_speaking" /\ slog'.op = "stop_speaking") =>
        /\ session'.audio_queue = session.audio_queue
        /\ session'.audio_source = session.audio_source
        /\ session'.generator = session.generator
        /\ session'.recording = session.recording
        /\ session'.mic_frames = session.mic_frames
        /\ session' = session

C19_StopSpeakingTwice == [][C19_SecondCallChangesNothing]_vars

\* the second of two consecutive calls has returned; the first one found
\* queued speech and the speech generator attached
C19_Witness ==
    /\ slog.op = "stop_speaking"
    /\ slog.prev_op = "stop_speaking"
    /\ slog.prev_avail > 1
    /\ slog.pre_avail = 0
    /\ slog.pre_gen = "None"
    /\ AQ_available(session.audio_queue) = 0
----------------------------------------------------------------------------
(* The microphone side of a Session (gateway/webrtc.py), driven by its one *)
(* caller, the connection handler, which makes one call at a time and      *)
(* none after close(); frames arrive from the browser's track and the      *)
(* periodic transcribers run in between.  A frame is its arrival number.   *)

\* engine.stt.transcribe: "" for no audio, otherwise "" or a text, written
\* here as the audio it was heard in
NoText == [heard |-> <<>>]
Transcribe(pcm, heard) ==
    IF pcm = <<>> \/ ~heard THEN NoText ELSE [heard |-> pcm]

\* `if self._transcribe_task: self._transcribe_task.cancel()`: the task
\* the Session refers to is the one its latest start_recording spawned
Cancel_transcribe_task(ts, s) ==
    IF s.transcribe_task # "None" /\ ts # <<>>
       /\ ts[Len(ts)].pc \in {"sleep", "stt"}
    THEN [ts EXCEPT ![Len(ts)].pc = "cancelled"]
    ELSE ts

\* _periodic_transcribe after its sleep
Periodic_wake(task, s) ==
    IF ~s.recording THEN [task EXCEPT !.pc = "exited"]
    ELSE IF s.mic_frames = <<>> THEN task
    ELSE [pc |-> "stt", snap |-> s.mic_frames]

\* _periodic_transcribe when its transcription returns: back to the head
\* of `while self._recording`
Periodic_resume(task, s) ==
    [pc |-> IF s.recording THEN "sleep" ELSE "exited", snap |-> <<>>]

\* a mutant of the test before on_transcription: recording is not looked at
Partial_is_passed_while_off(text, s) == text # NoText

\* `if text and self._on_transcription and self._recording`, with the
\* callback the handler always gives
Partial_is_passed(text, s) == text # NoText /\ s.recording

\* open: start_recording was called and neither stop_recording nor close
\* since; captured: the frames that arrived while open; matched, fed,
\* finals, ret, late: for the last stop_recording call, whether it found
\* the recording open, the audio it handed to the final transcription, the
\* final transcriptions it ran, what it returned, and the frames that
\* arrived while its transcription ran; partial: the last text passed to
\* on_transcription since start_recording
RLogInit ==
    [op |-> "new", starts |-> 0, nframes |-> 0, open |-> FALSE,
     captured |-> <<>>, matched |-> FALSE, fed |-> <<>>, finals |-> 0,
     ret |-> NoText, late |-> 0, partial |-> NoText]

RCallIdle == [pc |-> "idle", pcm |-> <<>>]

RInit ==
    /\ queue = AQ_new
    /\ qlog = QLogInit
    /\ session = Session_new
    /\ speaks = <<>>
    /\ slog = "None"
    /\ hpc = "None"
    /\ ws_closed = FALSE
    /\ inbox = <<>>
    /\ conversation = <<>>
    /\ agent_mode = FALSE
    /\ hlog = "None"
    /\ orch = "None"
    /\ olog = "None"
    /\ thr = "None"
    /\ lock = "free"
    /\ tasks = <<>>
    /\ rcall = RCallIdle
    /\ rlog = RLogInit
    /\ conn = "None"
    /\ pulls = <<>>
    /\ ring = "None"
    /\ nlog = "None"

ROnTrack ==
    /\ ~session.closed
    /\ session.mic_recv_task = "None"
    /\ session' = Session_on_track(session)
    /\ UNCHANGED <<tasks, rcall, rlog>>

RMicFrame ==
    /\ session.mic_recv_task = "live"
    /\ rlog.nframes < MaxMicFrames
    /\ session' = Session_mic_frame(session, rlog.nframes + 1)
    /\ rlog' = [rlog EXCEPT
                  !.nframes = @ + 1,
                  !.captured = IF rlog.open THEN Append(@, rlog.nframes + 1)
                               ELSE @,
                  !.late = IF rcall.pc = "stt" THEN @ + 1 ELSE @]
    /\ UNCHANGED <<tasks, rcall>>

RStart ==
    /\ ~session.closed
    /\ rcall.pc = "idle"
    /\ rlog.starts < MaxStarts
    /\ session' = Session_start_recording(session)
    /\ tasks' = Append(tasks, [pc |-> "sleep", snap |-> <<>>])
    /\ rlog' = [RLogInit EXCEPT !.op = "start_recording",
                                !.starts = rlog.starts + 1,
                                !.nframes = rlog.nframes,
                                !.open = TRUE]
    /\ UNCHANGED rcall

\* stop_recording up to its await, or to its return "" with no frame
RStopBegin ==
    /\ ~session.closed
    /\ rcall.pc = "idle"
    /\ tasks' = Cancel_transcribe_task(tasks, session)
    /\ session' = Session_stop_recording(session)
    /\ IF session.mic_frames = <<>>
       THEN /\ rcall' = RCallIdle
            /\ rlog' = [rlog EXCEPT !.op = "stop_returned",
                                    !.open = FALSE,
                                    !.matched = rlog.open,
                                    !.fed = <<>>,
                                    !.finals = 0,
                                    !.ret = NoText,
                                    !.late = 0]
       ELSE /\ rcall' = [pc |-> "stt", pcm |-> session.mic_frames]
            /\ rlog' = [rlog EXCEPT !.op = "stop_recording",
                                    !.open = FALSE,
                                    !.matched = rlog.open,
                                    !.fed = session.mic_frames,
                                    !.finals = 1,
                                    !.ret = NoText,
                                    !.late = 0]

\* the final transcription returns and stop_recording returns its text
RStopReturn(heard) ==
    /\ rcall.pc = "stt"
    /\ rcall' = RCallIdle
    /\ rlog' = [rlog EXCEPT !.op = "stop_returned",
                            !.ret = Transcribe(rcall.pcm, heard)]
    /\ UNCHANGED <<session, tasks>>

\* the final transcription raises, and so does stop_recording
RStopRaise ==
    /\ rcall.pc = "stt"
    /\ rcall' = RCallIdle
    /\ rlog' = [rlog EXCEPT !.op = "stop_raised"]
    /\ UNCHANGED <<session, tasks>>

\* a periodic transcriber wakes from its sleep
RWake(k) ==
    /\ tasks[k].pc = "sleep"
    /\ tasks' = [tasks EXCEPT ![k] = Periodic_wake(@, session)]
    /\ UNCHANGED <<session, rcall, rlog>>

\* the transcription of a periodic transcriber returns; a text is passed
\* to on_transcription if recording is still on
RPartialReturn(k, heard) ==
    /\ tasks[k].pc = "stt"
    /\ tasks' = [tasks EXCEPT ![k] = Periodic_resume(@, session)]
    /\ LET text == Transcribe(tasks[k].snap, heard)
       IN  rlog' = IF Partial_is_passed(text, session)
                   THEN [rlog EXCEPT !.partial = text]
                   ELSE rlog
    /\ UNCHANGED <<session, rcall>>

RClose ==
    /\ ~session.closed
    /\ rcall.pc = "idle"
    /\ tasks' = Cancel_transcribe_task(tasks, session)
    /\ session' = Session_close(session)
    /\ rlog' = [rlog EXCEPT !.op = "close", !.open = FALSE]
    /\ UNCHANGED rcall

\* what the microphone side leaves alone
RFrame == <<queueVars, speaks, slog, wsVars, orchVars, thrVars, ctlVars, ringVars>>

RNext ==
    \/ ROnTrack /\ UNCHANGED RFrame
    \/ RMicFrame /\ UNCHANGED RFrame
    \/ RStart /\ UNCHANGED RFrame
    \/ RStopBegin /\ UNCHANGED RFrame
    \/ \E heard \in BOOLEAN : RStopReturn(heard) /\ UNCHANGED RFrame
    \/ RStopRaise /\ UNCHANGED RFrame
    \/ \E k \in 1..Len(tasks) : RWake(k) /\ UNCHANGED RFrame
    \/ \E k \in 1..Len(tasks), heard \in BOOLEAN :
          RPartialReturn(k, heard) /\ UNCHANGED RFrame
    \/ RClose /\ UNCHANGED RFrame

SpecRec == RInit /\ [][RNext]_vars

----------------------------------------------------------------------------
(* C20: stop_recording() sets recording off and cancels the periodic       *)
(* transcriber of the matching start_recording; it hands the frames        *)
(* appended between that start_recording and this call, in arrival order,  *)
(* to one final transcription and returns its text (the empty text,        *)
(* without a transcription, when there is no frame); the capture buffer is *)
(* empty when it returns, and no frame that arrives while the final        *)
(* transcription runs is appended.                                         *)

C20_StopCalled == rlog.op \in {"stop_recording", "stop_returned", "stop_raised"}

----------------------------------------------------------------------------
(* _recv_mic_audio (gateway/webrtc.py): the conversion of one microphone   *)
(* frame to the chunk that is buffered.  A frame has `samples` samples per *)
(* channel, one or two channels, packed (interleaved, shape                *)
(* (1, samples * channels)) or planar (shape (channels, samples)), of      *)
(* int16 or float values.  The sample of channel ch at index i of the      *)
(* frame that arrived as number seq is worth 4 * seq + ch; a float sample  *)
(* is written [num |-> k] for k / 32767.                                   *)

MicFrames(seq) ==
    [seq : {seq}, samples : 1..MaxSamples, channels : {1, 2},
     planar : BOOLEAN, float : BOOLEAN]

Mic_sample(f, i, ch) ==
    IF f.float THEN [num |-> 4 * f.seq + ch] ELSE 4 * f.seq + ch

\* frame.to_ndarray().flatten(): row after row
Mic_flat(f) ==
    [p \in 1..(f.samples * f.channels) |->
        IF f.planar
        THEN Mic_sample(f, ((p - 1) % f.samples) + 1, (p - 1) \div f.samples)
        ELSE Mic_sample(f, ((p - 1) \div f.channels) + 1,
                        (p - 1) % f.channels)]

\* (arr * 32767).clip(-32768, 32767).astype(np.int16), one value
Mic_scale(x) ==
    IF x.num > 32767 THEN 32767
    ELSE IF x.num < 0 - 32768 THEN 0 - 32768 ELSE x.num

\* a mutant of flat[::channels]: every value is kept
Mic_stride_all(flat, channels) == flat

\* flat[::channels]
Mic_stride(flat, channels) ==
    [k \in 1..((Len(flat) + channels - 1) \div channels) |->
        flat[(k - 1) * channels + 1]]

\* astype(np.int16).tobytes(): two bytes a value, low byte first
Mic_tobytes(vals) ==
    [b \in 1..(2 * Len(vals)) |->
        LET v == vals[(b + 1) \div 2] % 65536
        IN  IF b % 2 = 1 THEN v % 256 ELSE v \div 256]

\* the chunk _recv_mic_audio makes of a frame
Mic_pcm(f) ==
    LET flat0 == Mic_flat(f)
        flat1 == IF f.float
                 THEN [p \in 1..Len(flat0) |-> Mic_scale(flat0[p])]
                 ELSE flat0
        channels == Len(flat1) \div f.samples
        flat == IF channels > 1 THEN Mic_stride(flat1, channels) ELSE flat1
    IN  Mic_tobytes(flat)

\* nframes: the frames received; frame, was_on: the last frame received
\* and the recording flag it found; on: the frames received while
\* recording was on, since the last start_recording or stop_recording
MLogInit ==
    [op |-> "new", nframes |-> 0,
     frame |-> [seq |-> 0, samples |-> 1, channels |-> 1,
                planar |-> FALSE, float |-> FALSE],
     was_on |-> FALSE, on |-> <<>>]

MInit ==
    /\ queue = AQ_new
    /\ qlog = QLogInit
    /\ session = Session_new
    /\ speaks = <<>>
    /\ slog = "None"
    /\ hpc = "None"
    /\ ws_closed = FALSE
    /\ inbox = <<>>
    /\ conversation = <<>>
    /\ agent_mode = FALSE
    /\ hlog = "None"
    /\ orch = "None"
    /\ olog = "None"
    /\ thr = "None"
    /\ lock = "free"
    /\ tasks = <<>>
    /\ rcall = "None"
    /\ rlog = MLogInit
    /\ conn = "None"
    /\ pulls = <<>>
    /\ ring = "None"
    /\ nlog = "None"

MOnTrack ==
    /\ session.mic_recv_task = "None"
    /\ session' = Session_on_track(session)
    /\ rlog' = [rlog EXCEPT !.op = "on_track"]

\* track.recv() returns a frame
MFrame(f) ==
    /\ session.mic_recv_task = "live"
    /\ rlog.nframes < MaxMicFrames
    /\ session' = Session_mic_frame(session, Mic_pcm(f))
    /\ rlog' = [rlog EXCEPT !.op = "frame",
                            !.nframes = @ + 1,
                            !.frame = f,
                            !.was_on = session.recording,
                            !.on = IF session.recording THEN Append(@, f)
                                   ELSE @]

\* track.recv() raises: the loop ends
MTrackEnds ==
    /\ session.mic_recv_task = "live"
    /\ session' = [session EXCEPT !.mic_recv_task = "ended"]
    /\ rlog' = [rlog EXCEPT !.op = "track_ended"]

MStart ==
    /\ rlog.op # "start_recording"
    /\ session' = Session_start_recording(session)
    /\ rlog' = [rlog EXCEPT !.op = "start_recording", !.on = <<>>]

MStop ==
    /\ rlog.op # "stop_recording"
    /\ session' = Session_stop_recording(session)
    /\ rlog' = [rlog EXCEPT !.op = "stop_recording", !.on = <<>>]

\* what the ingest loop leaves alone
MFrameVars ==
    <<queueVars, speaks, slog, wsVars, orchVars, thrVars, tasks, rcall,
      ctlVars, ringVars>>

MNext ==
    \/ MOnTrack /\ UNCHANGED MFrameVars
    \/ \E f \in MicFrames(rlog.nframes + 1) : MFrame(f) /\ UNCHANGED MFrameVars
    \/ MTrackEnds /\ UNCHANGED MFrameVars
    \/ MStart /\ UNCHANGED MFrameVars
    \/ MStop /\ UNCHANGED MFrameVars

SpecMic == MInit /\ [][MNext]_vars

----------------------------------------------------------------------------
(* C21: for every frame the ingest loop receives, one chunk of exactly     *)
(* 2 * samples bytes is appended to the capture buffer if recording is on  *)
(* when the frame is received, and nothing is appended if it is off; the   *)
(* chunks are in the buffer in the order their frames arrived.             *)

\* the frame a chunk was made of: its first sample is of channel 0
C21_SeqOf(chunk) == (chunk[1] + 256 * chunk[2]) \div 4

C21_OneChunkPerFrame ==
    rlog'.nframes # rlog.nframes =>
        IF session.recording
        THEN /\ Len(session'.mic_frames) = Len(session.mic_frames) + 1
             /\ SubSeq(session'.mic_frames, 1, Len(session.mic_frames)) =
                    session.mic_frames
             /\ Len(session'.mic_frames[Len(session'.mic_frames)]) =
                    2 * rlog'.frame.samples
        ELSE session'.mic_frames = session.mic_frames

C21_InArrivalOrder ==
    /\ Len(session.mic_frames) = Len(rlog.on)
    /\ \A k \in 1..Len(session.mic_frames) :
           /\ Len(session.mic_frames[k]) = 2 * rlog.on[k].samples
           /\ C21_SeqOf(session.mic_frames[k]) = rlog.on[k].seq
    /\ \A j, k \in 1..Len(session.mic_frames) :
           j < k => C21_SeqOf(session.mic_frames[j]) <
                        C21_SeqOf(session.mic_frames[k])

C21_MicIngest ==
    /\ [](C21_InArrivalOrder)
    /\ [][C21_OneChunkPerFrame]_vars

\* two chunks are buffered, the second made of a planar stereo float frame
\* of MaxSamples samples; a frame that found recording off came before
C21_Witness ==
    /\ Len(session.mic_frames) = 2
    /\ rlog.op = "frame"
    /\ rlog.was_on
    /\ rlog.frame.channels = 2
    /\ rlog.frame.planar
    /\ rlog.frame.float
    /\ rlog.frame.samples = MaxSamples
    /\ Len(session.mic_frames[2]) = 2 * MaxSamples
----------------------------------------------------------------------------
(* handle_ws (gateway/server.py), the pull_model branch and the _do_pull   *)
(* tasks it starts, beside the ping branch.  A pull is                     *)
(* [model, pc, got, sent]: got counts the progress frames forwarded, sent  *)
(* is what the connection was sent for this pull, in order; on_closed      *)
(* counts the sends the task made on a closed socket; pc is                *)
(* "stream" (awaiting the next frame), "catalog" (awaiting                 *)
(* get_available_models), "update" (pull_complete sent), "done",           *)
(* "failed" (the except branch ran; raised_at is where the task was) or    *)
(* "abandoned" (the socket was found closed).                              *)

PullModels == {"", "m1"}

PullMsgs ==
    [type : {"pull_model"}, model : PullModels]
        \cup {[type |-> "ping", model |-> ""]}

PullSent(type, n) == [type |-> type, n |-> n]

\* the position of the message loop once a pull_model is accepted, under
\* a mutant: the handler awaits _do_pull
After_pull_awaited == "pull"

\* asyncio.create_task(_do_pull(...)): the handler goes on to the next
\* message
After_pull_accepted == "loop"

\* the task as created, pull_started already sent by the handler
Pull_new(model) ==
    [model |-> model, pc |-> "stream", got |-> 0,
     sent |-> <<PullSent("pull_started", 0)>>, raised_at |-> "None",
     on_closed |-> 0]

PullLive(p) == p.pc \in {"stream", "catalog", "update"}

\* a mutant of the except branch: nothing is sent
Pull_except_silent(p, closed) ==
    [p EXCEPT !.pc = "failed", !.raised_at = p.pc]

\* except Exception: pull_error, if the socket is not closed
Pull_except(p, closed) ==
    [p EXCEPT !.pc = "failed",
              !.raised_at = p.pc,
              !.sent = IF closed THEN @
                       ELSE Append(@, PullSent("pull_error", 0))]

\* one progress frame: a frame that is no mapping, or whose total does
\* not compare with 0, raises inside the try
Pull_frame(p, closed, ok) ==
    IF closed THEN [p EXCEPT !.pc = "abandoned"]
    ELSE IF ~ok THEN Pull_except(p, closed)
    ELSE [p EXCEPT !.got = @ + 1,
                   !.sent = Append(@, PullSent("pull_progress", p.got + 1))]

\* the stream is exhausted
Pull_stream_ends(p, closed) ==
    [p EXCEPT !.pc = IF closed THEN "done" ELSE "catalog"]

\* get_available_models returned: pull_complete is sent; on a closed
\* socket the send raises and the except branch sends nothing
Pull_complete(p, closed) ==
    IF closed THEN [Pull_except(p, closed) EXCEPT !.on_closed = @ + 1]
    ELSE [p EXCEPT !.pc = "update",
                   !.sent = Append(@, PullSent("pull_complete", 0))]

\* the send of model_catalog_update follows that of pull_complete with no
\* test of the socket in between
Pull_update(p, closed) ==
    IF closed THEN [Pull_except(p, closed) EXCEPT !.on_closed = @ + 1]
    ELSE [p EXCEPT !.pc = "done",
                   !.sent = Append(@, PullSent("model_catalog_update", 0))]

\* arrived: the messages the client has sent; pongs, errors: the replies
\* of the message loop; live_at_pong: the pulls in progress when the last
\* pong was sent
PLogInit == [arrived |-> 0, pongs |-> 0, errors |-> 0, live_at_pong |-> 0]

PInit ==
    /\ queue = AQ_new
    /\ qlog = QLogInit
    /\ session = "None"
    /\ speaks = <<>>
    /\ slog = "None"
    /\ hpc = "loop"
    /\ ws_closed = FALSE
    /\ inbox = <<>>
    /\ conversation = <<>>
    /\ agent_mode = FALSE
    /\ hlog = PLogInit
    /\ orch = "None"
    /\ olog = "None"
    /\ thr = "None"
    /\ lock = "free"
    /\ tasks = <<>>
    /\ rcall = "None"
    /\ rlog = "None"
    /\ conn = "None"
    /\ pulls = <<>>
    /\ ring = "None"
    /\ nlog = "None"

\* the client sends a message
P_arrive(m) ==
    /\ ~ws_closed
    /\ Len(inbox) < MaxInbox
    /\ hlog.arrived < MaxWsFrames
    /\ inbox' = Append(inbox, m)
    /\ hlog' = [hlog EXCEPT !.arrived = @ + 1]
    /\ UNCHANGED <<hpc, ws_closed, pulls>>

\* the loop takes the message at the head of the socket
P_takes(type) ==
    /\ hpc = "loop"
    /\ ~ws_closed
    /\ inbox # <<>>
    /\ Head(inbox).type = type
    /\ inbox' = Tail(inbox)

P_pull_missing ==
    /\ P_takes("pull_model")
    /\ Head(inbox).model = ""
    /\ hlog' = [hlog EXCEPT !.errors = @ + 1]
    /\ UNCHANGED <<hpc, ws_closed, pulls>>

P_pull_model ==
    /\ P_takes("pull_model")
    /\ Head(inbox).model # ""
    /\ Len(pulls) < MaxPulls
    /\ pulls' = Append(pulls, Pull_new(Head(inbox).model))
    /\ hpc' = After_pull_accepted
    /\ UNCHANGED <<ws_closed, hlog>>

P_ping ==
    /\ P_takes("ping")
    /\ hlog' = [hlog EXCEPT
                  !.pongs = @ + 1,
                  !.live_at_pong =
                      Cardinality({k \in 1..Len(pulls) : PullLive(pulls[k])})]
    /\ UNCHANGED <<hpc, ws_closed, pulls>>

\* the client goes away: the loop ends and handle_ws returns
P_disconnect ==
    /\ ~ws_closed
    /\ ws_closed' = TRUE
    /\ inbox' = <<>>
    /\ hpc' = "returned"
    /\ UNCHANGED <<hlog, pulls>>

\* the stream of pull k delivers a frame
D_frame(k, ok) ==
    /\ pulls[k].pc = "stream"
    /\ pulls[k].got < MaxPullFrames
    /\ pulls' = [pulls EXCEPT ![k] = Pull_frame(@, ws_closed, ok)]
    /\ UNCHANGED <<hpc, ws_closed, inbox, hlog>>

D_stream_ends(k) ==
    /\ pulls[k].pc = "stream"
    /\ pulls' = [pulls EXCEPT ![k] = Pull_stream_ends(@, ws_closed)]
    /\ UNCHANGED <<hpc, ws_closed, inbox, hlog>>

\* the request or the stream of pull k raises
D_stream_raises(k) ==
    /\ pulls[k].pc = "stream"
    /\ pulls' = [pulls EXCEPT ![k] = Pull_except(@, ws_closed)]
    /\ UNCHANGED <<hpc, ws_closed, inbox, hlog>>

D_catalog_returns(k) ==
    /\ pulls[k].pc = "catalog"
    /\ pulls' = [pulls EXCEPT ![k] = Pull_complete(@, ws_closed)]
    /\ UNCHANGED <<hpc, ws_closed, inbox, hlog>>

D_catalog_raises(k) ==
    /\ pulls[k].pc = "catalog"
    /\ pulls' = [pulls EXCEPT ![k] = Pull_except(@, ws_closed)]
    /\ UNCHANGED <<hpc, ws_closed, inbox, hlog>>

\* the send of pull_complete is over: model_catalog_update is sent
D_update(k) ==
    /\ pulls[k].pc = "update"
    /\ pulls' = [pulls EXCEPT ![k] = Pull_update(@, ws_closed)]
    /\ UNCHANGED <<hpc, ws_closed, inbox, hlog>>

\* what this part of the handler leaves alone
PFrame ==
    <<queueVars, sessVars, conversation, agent_mode, orchVars, thrVars,
      recVars, conn, ringVars>>

PNext ==
    \/ \E m \in PullMsgs : P_arrive(m) /\ UNCHANGED PFrame
    \/ P_pull_missing /\ UNCHANGED PFrame
    \/ P_pull_model /\ UNCHANGED PFrame
    \/ P_ping /\ UNCHANGED PFrame
    \/ P_disconnect /\ UNCHANGED PFrame
    \/ \E k \in 1..Len(pulls), ok \in BOOLEAN :
          D_frame(k, ok) /\ UNCHANGED PFrame
    \/ \E k \in 1..Len(pulls) : D_stream_ends(k) /\ UNCHANGED PFrame
    \/ \E k \in 1..Len(pulls) : D_stream_raises(k) /\ UNCHANGED PFrame
    \/ \E k \in 1..Len(pulls) : D_catalog_returns(k) /\ UNCHANGED PFrame
    \/ \E k \in 1..Len(pulls) : D_catalog_raises(k) /\ UNCHANGED PFrame
    \/ \E k \in 1..Len(pulls) : D_update(k) /\ UNCHANGED PFrame

SpecPull == PInit /\ [][PNext]_vars

----------------------------------------------------------------------------
(* C22: once a pull_model message is accepted the message loop is back at  *)
(* its head: while a pull is in progress and the socket is open the loop   *)
(* is waiting for the next message, and a ping that is next is answered    *)
(* with pong at once.                                                      *)

C22_PullInProgress == \E k \in 1..Len(pulls) : PullLive(pulls[k])

C22_LoopNotHeld ==
    /\ (C22_PullInProgress /\ ~ws_closed) => hpc = "loop"
    /\ (C22_PullInProgress /\ ~ws_closed /\ inbox # <<>>
            /\ Head(inbox).type = "ping") =>
           ENABLED (P_ping /\ UNCHANGED PFrame)

\* a pong was sent while two pulls were in progress
C22_Witness ==
    /\ hlog.pongs > 0
    /\ hlog.live_at_pong = 2
    /\ C22_PullInProgress
    /\ ~ws_closed

----------------------------------------------------------------------------
(* C23: what a connection is sent for one accepted pull_model is           *)
(* pull_started, then one pull_progress for every progress frame, in the   *)
(* order of the stream, then either pull_complete followed by              *)
(* model_catalog_update, or pull_error; pull_complete and pull_error are   *)
(* never both sent for one pull.  On an open socket a pull that came to    *)
(* its end has sent the whole of one of the two endings.                   *)

C23_Count(sent, type) ==
    Cardinality({i \in 1..Len(sent) : sent[i].type = type})

\* the messages after pull_started and the pull_progress ones
C23_Ending(p) == SubSeq(p.sent, p.got + 2, Len(p.sent))

C23_Endings ==
    {<<>>,
     <<PullSent("pull_error", 0)>>,
     <<PullSent("pull_complete", 0)>>,
     <<PullSent("pull_complete", 0), PullSent("model_catalog_update", 0)>>}

----------------------------------------------------------------------------
(* handle_ws (gateway/server.py), the set_provider, set_model and          *)
(* set_voice branches.  conn holds the handler's llm_provider, llm_model   *)
(* and tts_voice.  A field of a message is a string, or "[]" for a JSON    *)
(* array, which Python decodes to a list.                                  *)

Hashable(v) == v # "[]"

KnownProviders == {"claude", "openai", "ollama"}

\* the ids of VOICE_CATALOG (engine/tts.py)
VoiceIds ==
    {"en_US-lessac-medium", "en_US-hfc_female-medium",
     "en_US-hfc_male-medium", "en_US-libritts_r-medium",
     "en_GB-alba-medium", "en_GB-aru-medium", "de_DE-thorsten-medium",
     "fr_FR-siwis-medium", "es_ES-davefx-medium"}

DEFAULT_VOICE == "en_US-lessac-medium"

\* what clients send in the provider, model and voice_id fields
ProviderValues == {"claude", "ollama", "nope", "", "[]"}
ModelValues == {"", "m1"}
VoiceValues == {"en_GB-alba-medium", "nope", "", "[]"}

ConnInit ==
    [llm_provider |-> "", llm_model |-> "", tts_voice |-> DEFAULT_VOICE]

\* msg, field: the last message handled and its provider or voice_id;
\* reply: what was sent for it, "none" if nothing; conn0, history0: the
\* settings and the history before it; turns: the agent turns so far
GLogInit ==
    [msg |-> "none", field |-> "", model |-> "", reply |-> "none",
     conn0 |-> ConnInit, history0 |-> <<>>, turns |-> 0]

GInit ==
    /\ queue = AQ_new
    /\ qlog = QLogInit
    /\ session = "None"
    /\ speaks = <<>>
    /\ slog = "None"
    /\ hpc = "loop"
    /\ ws_closed = FALSE
    /\ inbox = <<>>
    /\ conversation = <<>>
    /\ agent_mode = TRUE
    /\ hlog = GLogInit
    /\ orch = "None"
    /\ olog = "None"
    /\ thr = "None"
    /\ lock = "free"
    /\ tasks = <<>>
    /\ rcall = "None"
    /\ rlog = "None"
    /\ conn = ConnInit
    /\ pulls = <<>>
    /\ ring = "None"
    /\ nlog = "None"

\* the log entry of a message being handled
GTaken(msg, field, model) ==
    [GLogInit EXCEPT !.msg = msg, !.field = field, !.model = model,
                     !.conn0 = conn, !.history0 = conversation,
                     !.turns = hlog.turns]

G_set_provider(provider) ==
    /\ hpc = "loop"
    /\ IF provider \in KnownProviders
       THEN /\ conn' = [conn EXCEPT !.llm_provider = provider]
            /\ hlog' = [GTaken("set_provider", provider, "") EXCEPT
                          !.reply = "provider_set"]
       ELSE /\ conn' = conn
            /\ hlog' = [GTaken("set_provider", provider, "") EXCEPT
                          !.reply = "error"]
    /\ UNCHANGED <<hpc, conversation>>

G_set_model(provider, model) ==
    /\ hpc = "loop"
    /\ IF provider \in KnownProviders
       THEN /\ conn' = [conn EXCEPT
                          !.llm_provider = provider,
                          !.llm_model = IF provider = "ollama" THEN model
                                        ELSE ""]
            /\ conversation' = <<>>
            /\ hlog' = [GTaken("set_model", provider, model) EXCEPT
                          !.reply = "model_set"]
       ELSE /\ UNCHANGED <<conn, conversation>>
            /\ hlog' = [GTaken("set_model", provider, model) EXCEPT
                          !.reply = "error"]
    /\ UNCHANGED hpc

\* `voice_id in known_ids` hashes voice_id: a list raises TypeError, which
\* nothing in handle_ws catches
G_set_voice(voice_id) ==
    /\ hpc = "loop"
    /\ IF ~Hashable(voice_id)
       THEN /\ hpc' = "raised"
            /\ conn' = conn
            /\ hlog' = GTaken("set_voice", voice_id, "")
       ELSE IF voice_id \in VoiceIds
       THEN /\ hpc' = hpc
            /\ conn' = [conn EXCEPT !.tts_voice = voice_id]
            /\ hlog' = [GTaken("set_voice", voice_id, "") EXCEPT
                          !.reply = "voice_set"]
       ELSE /\ hpc' = hpc
            /\ conn' = conn
            /\ hlog' = [GTaken("set_voice", voice_id, "") EXCEPT
                          !.reply = "error"]
    /\ UNCHANGED conversation

\* a mic_stop with some final text in agent mode: the user turn is added
\* and, if the language model answers, the assistant turn
G_agent_turn(answered) ==
    /\ hpc = "loop"
    /\ hlog.turns < MaxAgentTurns
    /\ conversation' =
           IF answered
           THEN Conv_add_turn(Conv_add_turn(conversation, "user"),
                              "assistant")
           ELSE Conv_add_turn(conversation, "user")
    /\ hlog' = [GTaken("mic_stop", "", "") EXCEPT !.turns = hlog.turns + 1]
    /\ UNCHANGED <<hpc, conn>>

\* what these branches leave alone
GFrame ==
    <<queueVars, sessVars, ws_closed, inbox, agent_mode, orchVars, thrVars,
      recVars, pulls, ringVars>>

GNext ==
    \/ \E p \in ProviderValues : G_set_provider(p) /\ UNCHANGED GFrame
    \/ \E p \in ProviderValues, m \in ModelValues :
          G_set_model(p, m) /\ UNCHANGED GFrame
    \/ \E v \in VoiceValues : G_set_voice(v) /\ UNCHANGED GFrame
    \/ \E answered \in BOOLEAN : G_agent_turn(answered) /\ UNCHANGED GFrame

SpecSettings == GInit /\ [][GNext]_vars

----------------------------------------------------------------------------
(* C24: set_model with a known provider updates the connection's provider  *)
(* and model and empties the conversation history; set_provider never      *)
(* changes the history; set_provider or set_model with an unknown          *)
(* provider, and set_voice with a voice id that is not in the catalog, are *)
(* answered with error and leave provider, model, voice and history as     *)
(* they were.                                                              *)

C24_SettingsMessages ==
    /\ (hlog.msg = "set_model" /\ hlog.field \in KnownProviders) =>
           /\ conn.llm_provider = hlog.field
           /\ conn.llm_model = (IF hlog.field = "ollama" THEN hlog.model
                                ELSE "")
           /\ conn.tts_voice = hlog.conn0.tts_voice
           /\ conversation = <<>>
    /\ hlog.msg = "set_provider" => conversation = hlog.history0
    /\ (hlog.msg \in {"set_provider", "set_model"}
            /\ hlog.field \notin KnownProviders) =>
           /\ hlog.reply = "error"
           /\ conn = hlog.conn0
           /\ conversation = hlog.history0
    /\ (hlog.msg = "set_voice" /\ hlog.field \notin VoiceIds) =>
           /\ hlog.reply = "error"
           /\ conn = hlog.conn0
           /\ conversation = hlog.history0
----------------------------------------------------------------------------
(* C25: start_audio and stop_audio attach and detach the sine-wave         *)
(* generator only: a stop_audio() made while the FIFO-backed generator of  *)
(* speak_text is attached leaves it attached, and a start_audio() made     *)
(* then does not put another generator in its place.                       *)

C25_SineCallsLeaveTts ==
    (slog.op \in {"start_audio", "stop_audio"} /\ slog.pre_gen = "tts") =>
        session.audio_source.generator = "tts"
----------------------------------------------------------------------------
(* Orchestrator._parse_text_tool_calls (voice_assistant/orchestrator.py),  *)
(* character by character.  A text is a sequence of characters.            *)
(* _TEXT_TOOL_RE reads: the start of the text or one quote or white-space  *)
(* character; a name, one or more word characters; white space; an         *)
(* optional opening parenthesis; white space; a brace group, from an       *)
(* opening brace to the first closing brace; white space; an optional      *)
(* closing parenthesis.                                                    *)

\* \w, on the characters texts are made of
Re_is_word(c) ==
    c \in {"a", "b", "c", "d", "e", "f", "g", "h", "i", "j", "k", "l", "m",
           "n", "o", "p", "q", "r", "s", "t", "u", "v", "w", "x", "y", "z",
           "S", "_"}
\* the back quote is written "backquote"
Re_is_sep(c) == c \in {"'", "\"", "backquote"} \/ IsSpace(c)

\* the end of the longest run of characters of a class that starts at i
RECURSIVE Re_word_end(_, _)
Re_word_end(t, i) ==
    IF i <= Len(t) /\ Re_is_word(t[i]) THEN Re_word_end(t, i + 1) ELSE i

RECURSIVE Re_space_end(_, _)
Re_space_end(t, i) ==
    IF i <= Len(t) /\ IsSpace(t[i]) THEN Re_space_end(t, i + 1) ELSE i

\* [^}]*\}: the position of the first "}" from i on, 0 if there is none
RECURSIVE Re_close(_, _)
Re_close(t, i) ==
    IF i > Len(t) THEN 0
    ELSE IF t[i] = "}" THEN i ELSE Re_close(t, i + 1)

Re_no_match == [ok |-> FALSE, name |-> <<>>, args |-> <<>>, end |-> 0]

\* (\w+)\s*\(?\s*(\{[^}]*\})\s*\)? with the name starting at n; the
\* greedy choices are the only ones that can match
Re_match_name(t, n) ==
    IF n > Len(t) \/ ~Re_is_word(t[n]) THEN Re_no_match
    ELSE
      LET w == Re_word_end(t, n)
          a == Re_space_end(t, w)
          b == IF a <= Len(t) /\ t[a] = "(" THEN a + 1 ELSE a
          o == Re_space_end(t, b)
          c == IF o <= Len(t) /\ t[o] = "{" THEN Re_close(t, o + 1) ELSE 0
          d == Re_space_end(t, c + 1)
          e == IF d <= Len(t) /\ t[d] = ")" THEN d + 1 ELSE d
      IN  IF c = 0 THEN Re_no_match
          ELSE [ok |-> TRUE, name |-> SubSeq(t, n, w - 1),
                args |-> SubSeq(t, o, c), end |-> e]

\* a match that starts at p: at the start of the text with nothing before
\* the name, or with one separator before it
Re_match_at(t, p) ==
    LET first == IF p = 1 THEN Re_match_name(t, 1) ELSE Re_no_match
    IN  IF first.ok THEN first
        ELSE IF Re_is_sep(t[p]) THEN Re_match_name(t, p + 1)
        ELSE Re_no_match

\* finditer: the matches from left to right, each search starting where
\* the last match ended
RECURSIVE Re_finditer(_, _)
Re_finditer(t, pos) ==
    IF pos > Len(t) THEN <<>>
    ELSE LET m == Re_match_at(t, pos)
         IN  IF m.ok THEN <<m>> \o Re_finditer(t, m.end)
             ELSE Re_finditer(t, pos + 1)

\* str.lower(), on the characters texts are made of
Lower_char(c) == IF c = "S" THEN "s" ELSE c
Lower(w) == [i \in 1..Len(w) |-> Lower_char(w[i])]

W_search == <<"s", "e", "a", "r", "c", "h">>
W_Search == <<"S", "e", "a", "r", "c", "h">>
W_foo == <<"f", "o", "o">>
ArgsKV == <<"{", "\"", "k", "\"", ":", "\"", "v", "\"", "}">>
ArgsBad == <<"{", "x", "}">>

\* _TOOL_ALIASES as the set of its (key, registry name) pairs
AliasPairs ==
    {<<<<"g", "c", "_", "s", "e", "a", "r", "c", "h">>, "web_search">>,
     <<<<"s", "e", "a", "r", "c", "h">>, "web_search">>,
     <<<<"w", "e", "b", "_", "s", "e", "a", "r", "c", "h">>, "web_search">>,
     <<<<"c", "h", "e", "c", "k", "_", "c", "a", "l", "e", "n", "d", "a", "r">>, "check_calendar">>,
     <<<<"c", "a", "l", "e", "n", "d", "a", "r">>, "check_calendar">>,
     <<<<"g", "e", "t", "_", "c", "a", "l", "e", "n", "d", "a", "r">>, "check_calendar">>,
     <<<<"s", "e", "a", "r", "c", "h", "_", "n", "o", "t", "e", "s">>, "search_notes">>,
     <<<<"n", "o", "t", "e", "s">>, "search_notes">>,
     <<<<"g", "e", "t", "_", "n", "o", "t", "e", "s">>, "search_notes">>}

TOOL_ALIASES ==
    [w \in {p[1] : p \in AliasPairs} |->
        (CHOOSE p \in AliasPairs : p[1] = w)[2]]

\* json.loads of a brace group: of the groups the texts hold, {"k":"v"}
\* and the empty object decode
Json_loads_ok(raw) ==
    \/ raw = ArgsKV
    \/ /\ Len(raw) >= 2
       /\ \A i \in 2..(Len(raw) - 1) : IsSpace(raw[i])

Alias_key(raw_name) == Lower(raw_name)

RECURSIVE Parse_matches(_)
Parse_matches(ms) ==
    IF ms = <<>> THEN <<>>
    ELSE LET m == Head(ms)
             key == Alias_key(m.name)
         IN  IF key \notin DOMAIN TOOL_ALIASES THEN Parse_matches(Tail(ms))
             ELSE IF ~Json_loads_ok(m.args) THEN Parse_matches(Tail(ms))
             ELSE <<[name |-> TOOL_ALIASES[key], arguments |-> m.args,
                     raw_name |-> m.name]>>
                      \o Parse_matches(Tail(ms))

Parse_text_tool_calls(text) == Parse_matches(Re_finditer(text, 1))

\* a name, a space and a brace group, as a model writes a call in text
TextCall(name, args) == name \o <<" ">> \o args

\* the pieces the replies are made of
Pieces ==
    {TextCall(W_search, ArgsKV), TextCall(W_Search, ArgsKV),
     TextCall(W_foo, ArgsKV), TextCall(W_search, ArgsBad),
     W_search, ArgsKV, <<" ">>, <<"x">>, <<":">>, <<"(">>, <<")">>}

ReplyTexts ==
    {Concat(ps) : ps \in UNION {[1..n -> Pieces] : n \in 1..MaxPieces}}

\* one call of _parse_text_tool_calls on each text
XInit ==
    /\ queue = AQ_new
    /\ qlog = QLogInit
    /\ session = "None"
    /\ speaks = <<>>
    /\ slog = "None"
    /\ hpc = "None"
    /\ ws_closed = FALSE
    /\ inbox = <<>>
    /\ conversation = <<>>
    /\ agent_mode = FALSE
    /\ hlog = "None"
    /\ orch = "None"
    /\ olog \in [op : {"new"}, text : ReplyTexts, calls : {<<>>}]
    /\ thr = "None"
    /\ lock = "free"
    /\ tasks = <<>>
    /\ rcall = "None"
    /\ rlog = "None"
    /\ conn = "None"
    /\ pulls = <<>>
    /\ ring = "None"
    /\ nlog = "None"

XParse ==
    /\ olog.op = "new"
    /\ olog' = [olog EXCEPT !.op = "parsed",
                            !.calls = Parse_text_tool_calls(olog.text)]
    /\ UNCHANGED <<orch, queueVars, sessVars, wsVars, thrVars, recVars,
                   ctlVars, ringVars>>

XNext == XParse

SpecParse == XInit /\ [][XNext]_vars

----------------------------------------------------------------------------
(* C26: for every text that holds a key of the alias table, a space and    *)
(* {"k":"v"}, the name standing at the start of the text or after a        *)
(* space, the parser emits at least one call whose name is the registry    *)
(* name of that key; a name that is not in the alias table yields no call. *)

C26_HoldsCall(text, key) ==
    \E i \in 1..Len(text) :
        /\ i = 1 \/ IsSpace(text[i - 1])
        /\ i + Len(TextCall(key, ArgsKV)) - 1 <= Len(text)
        /\ SubSeq(text, i, i + Len(TextCall(key, ArgsKV)) - 1) =
               TextCall(key, ArgsKV)

C26_TextFallbackFindsCall ==
    olog.op = "parsed" =>
        /\ \A key \in DOMAIN TOOL_ALIASES :
               C26_HoldsCall(olog.text, key) =>
                   \E c \in 1..Len(olog.calls) :
                       olog.calls[c].name = TOOL_ALIASES[key]
        /\ \A c \in 1..Len(olog.calls) :
               Lower(olog.calls[c].raw_name) \in DOMAIN TOOL_ALIASES
----------------------------------------------------------------------------
(* PCMRingBuffer (gateway/audio/pcm_ring_buffer.py).  Every method runs    *)
(* under self._lock, so each is one atomic step.  Positions count from 0,  *)
(* as in the source; buf is a function on 0..capacity-1.                   *)

\* __init__(capacity)
Ring_new(capacity) ==
    [capacity |-> capacity, buf |-> [i \in 0..(capacity - 1) |-> 0],
     write_pos |-> 0, read_pos |-> 0, size |-> 0]

\* the property available
Ring_available(r) == r.size

\* a mutant of the loop body of write: a full buffer keeps its read pointer
Ring_put_keeps_read_pos(r, b) ==
    [r EXCEPT !.buf[r.write_pos] = b,
              !.write_pos = (r.write_pos + 1) % r.capacity,
              !.size = IF r.size = r.capacity THEN r.size ELSE r.size + 1]

\* the loop body of write, for one byte
Ring_put(r, b) ==
    [r EXCEPT !.buf[r.write_pos] = b,
              !.write_pos = (r.write_pos + 1) % r.capacity,
              !.read_pos = IF r.size = r.capacity
                           THEN (r.read_pos + 1) % r.capacity
                           ELSE r.read_pos,
              !.size = IF r.size = r.capacity THEN r.size ELSE r.size + 1]

\* write(data): the buffer afterwards and the value returned
RECURSIVE Ring_write_loop(_, _)
Ring_write_loop(r, data) ==
    IF data = <<>> THEN r
    ELSE Ring_write_loop(Ring_put(r, Head(data)), Tail(data))

Ring_write(r, data) == [ring |-> Ring_write_loop(r, data), ret |-> Len(data)]

\* read(n): the buffer afterwards and the bytes returned
Ring_read(r, n) ==
    LET available == Min(n, r.size)
        result == [i \in 1..n |->
                      IF i <= available
                      THEN r.buf[(r.read_pos + i - 1) % r.capacity]
                      ELSE 0]
    IN  [ring |-> [r EXCEPT !.read_pos = (r.read_pos + available) % r.capacity,
                            !.size = r.size - available],
         out |-> result]

Ring_clear(r) == [r EXCEPT !.write_pos = 0, !.read_pos = 0, !.size = 0]

\* what a bounded FIFO that keeps the newest data holds after a write
C27_Newest(content, capacity) ==
    IF Len(content) <= capacity THEN content
    ELSE SubSeq(content, Len(content) - capacity + 1, Len(content))

\* pre: the unread bytes before the last call, oldest first, as the calls
\* made so far define them; unread: the same after it; lost: a write since
\* the last clear has discarded bytes
NLogInit ==
    [op |-> "new", data |-> <<>>, n |-> 0, ret |-> 0, out |-> <<>>,
     pre |-> <<>>, unread |-> <<>>, lost |-> FALSE]

NInit ==
    /\ queue = AQ_new
    /\ qlog = QLogInit
    /\ session = "None"
    /\ speaks = <<>>
    /\ slog = "None"
    /\ hpc = "None"
    /\ ws_closed = FALSE
    /\ inbox = <<>>
    /\ conversation = <<>>
    /\ agent_mode = FALSE
    /\ hlog = "None"
    /\ orch = "None"
    /\ olog = "None"
    /\ thr = "None"
    /\ lock = "free"
    /\ tasks = <<>>
    /\ rcall = "None"
    /\ rlog = "None"
    /\ conn = "None"
    /\ pulls = <<>>
    /\ \E capacity \in 1..MaxCapacity : ring = Ring_new(capacity)
    /\ nlog = NLogInit

NFrame ==
    <<queueVars, sessVars, wsVars, orchVars, thrVars, recVars, ctlVars>>

NWrite(data) ==
    LET w == Ring_write(ring, data)
    IN  /\ ring' = w.ring
        /\ nlog' = [nlog EXCEPT
                      !.op = "write", !.data = data, !.n = 0,
                      !.ret = w.ret, !.out = <<>>,
                      !.pre = nlog.unread,
                      !.unread = C27_Newest(nlog.unread \o data,
                                            ring.capacity),
                      !.lost = nlog.lost
                                 \/ Len(nlog.unread) + Len(data)
                                        > ring.capacity]

NRead(n) ==
    LET r == Ring_read(ring, n)
        k == Min(n, Len(nlog.unread))
    IN  /\ ring' = r.ring
        /\ nlog' = [nlog EXCEPT
                      !.op = "read", !.data = <<>>, !.n = n,
                      !.ret = 0, !.out = r.out,
                      !.pre = nlog.unread,
                      !.unread = SubSeq(nlog.unread, k + 1,
                                        Len(nlog.unread))]

NClear ==
    /\ ring' = Ring_clear(ring)
    /\ nlog' = [nlog EXCEPT !.op = "clear", !.data = <<>>, !.n = 0,
                            !.ret = 0, !.out = <<>>,
                            !.pre = nlog.unread, !.unread = <<>>,
                            !.lost = FALSE]

NNext ==
    \/ \E data \in BytesUpTo(MaxRingWrite) : NWrite(data) /\ UNCHANGED NFrame
    \/ \E n \in 0..MaxReadLen : NRead(n) /\ UNCHANGED NFrame
    \/ NClear /\ UNCHANGED NFrame

SpecRing == NInit /\ [][NNext]_vars

----------------------------------------------------------------------------
(* C27: PCMRingBuffer is a bounded FIFO that keeps the newest data:        *)
(* write(d) returns len(d); read(n) returns exactly n bytes, the oldest    *)
(* unread bytes in write order followed by zeros; 0 <= available <=        *)
(* capacity and write_pos = (read_pos + size) mod capacity in every        *)
(* state; once more than capacity unread bytes have been written,          *)
(* available is capacity and a read returns the most recent capacity       *)
(* bytes; clear() makes available 0.                                       *)

C27_RingIsBoundedFifo ==
    /\ nlog.op = "write" => nlog.ret = Len(nlog.data)
    /\ nlog.op = "read" =>
           /\ Len(nlog.out) = nlog.n
           /\ nlog.out = SubSeq(nlog.pre, 1, Min(nlog.n, Len(nlog.pre)))
                           \o Zeros(nlog.n - Min(nlog.n, Len(nlog.pre)))
    /\ Ring_available(ring) >= 0
    /\ Ring_available(ring) <= ring.capacity
    /\ ring.write_pos = (ring.read_pos + ring.size) % ring.capacity
    /\ Ring_available(ring) = Len(nlog.unread)
    /\ (nlog.op = "write" /\ Len(nlog.pre) + Len(nlog.data) > ring.capacity)
           => /\ Ring_available(ring) = ring.capacity
              /\ Ring_read(ring, ring.capacity).out =
                     C27_Newest(nlog.pre \o nlog.data, ring.capacity)
    /\ nlog.op = "clear" => Ring_available(ring) = 0

\* a read longer than the capacity, after a write that discarded bytes,
\* returns a 1 that was kept and then the padding
C27_Witness ==
    /\ nlog.op = "read"
    /\ nlog.lost
    /\ nlog.n > ring.capacity
    /\ Len(nlog.pre) = ring.capacity
    /\ ring.capacity > 1
    /\ nlog.out[ring.capacity] = 1
    /\ nlog.out[1] = 0
----------------------------------------------------------------------------
(* C28: in every state of a session, recording off implies that no         *)
(* periodic transcriber the session has spawned is still live, whatever    *)
(* the sequence of start_recording, stop_recording and close calls.        *)

C28_Live(k) == tasks[k].pc \in {"sleep", "stt"}

C28_NoTranscriberWhileOff ==
    ~session.recording => \A k \in 1..Len(tasks) : ~C28_Live(k)
----------------------------------------------------------------------------
(* Barge-in on a Session (gateway/webrtc.py): speak_text calls, the        *)
(* stop_speaking calls that interrupt them, and the track's recv.          *)
(* speaks[c] carries, besides the position of call c, cut: the sentence    *)
(* the call was synthesizing when stop_speaking first ran during one of    *)
(* its awaits, 0 if that has not happened.                                 *)

BInit ==
    /\ queue = AQ_new
    /\ qlog = QLogInit
    /\ session = Session_new
    /\ speaks = <<>>
    /\ slog = SLogInit
    /\ hpc = "None"
    /\ ws_closed = FALSE
    /\ inbox = <<>>
    /\ conversation = <<>>
    /\ agent_mode = FALSE
    /\ hlog = "None"
    /\ orch = "None"
    /\ olog = "None"
    /\ thr = "None"
    /\ lock = "free"
    /\ tasks = <<>>
    /\ rcall = "None"
    /\ rlog = "None"
    /\ conn = "None"
    /\ pulls = <<>>
    /\ ring = "None"
    /\ nlog = "None"

\* speak_text up to its first await (or to its end, for no sentence)
BSpeakBegin(text) ==
    /\ Len(speaks) < MaxBargeSpeaks
    /\ LET n == Len(Split_sentences(text))
       IN  speaks' = Append(speaks, [n |-> n, i |-> 1, cut |-> 0,
                                     pc |-> IF n = 0 THEN "done" ELSE "synth"])
    /\ session' = [session EXCEPT
                     !.audio_source = Src_set_generator(@, "tts")]
    /\ slog' = [SLogInit EXCEPT !.recvs = slog.recvs, !.op = "speak_text"]

BStopSpeaking ==
    /\ session' = Session_stop_speaking(session)
    /\ speaks' = [c \in 1..Len(speaks) |->
                    IF speaks[c].pc = "synth" /\ speaks[c].cut = 0
                    THEN [speaks[c] EXCEPT !.cut = speaks[c].i]
                    ELSE speaks[c]]
    /\ slog' = [SLogInit EXCEPT !.recvs = slog.recvs,
                  !.op = "stop_speaking",
                  !.pre_avail = AQ_available(session.audio_queue),
                  !.pre_gen = session.audio_source.generator]

\* the synthesis of call c's current sentence returns len bytes; the
\* coroutine enqueues them and goes on to the next sentence
BSynthReturn(c, len) ==
    /\ speaks[c].pc = "synth"
    /\ LET pcm_48k == Pcm(c, speaks[c].i, len)
       IN  session' = [session EXCEPT
                         !.audio_queue = IF pcm_48k # <<>>
                                         THEN AQ_enqueue(@, pcm_48k) ELSE @]
    /\ speaks' = [speaks EXCEPT
                    ![c].i = @ + 1,
                    ![c].pc = IF speaks[c].i = speaks[c].n THEN "done"
                              ELSE "synth"]
    /\ slog' = [SLogInit EXCEPT !.recvs = slog.recvs, !.op = "enqueue"]

\* aiortc asks the track for its next frame
BRecv ==
    /\ slog.recvs < MaxFrames
    /\ LET r == Src_recv(session.audio_source, session.audio_queue)
       IN  /\ session' = [session EXCEPT !.audio_source = r.src,
                                          !.audio_queue = r.q]
           /\ slog' = [SLogInit EXCEPT !.recvs = slog.recvs + 1,
                                       !.op = "recv",
                                       !.frame = r.frame.samples,
                                       !.pts = r.frame.pts]
    /\ UNCHANGED speaks

BFrame ==
    <<queueVars, wsVars, orchVars, thrVars, recVars, ctlVars, ringVars>>

BNext ==
    \/ \E text \in Texts : BSpeakBegin(text) /\ UNCHANGED BFrame
    \/ BStopSpeaking /\ UNCHANGED BFrame
    \/ \E c \in 1..Len(speaks), len \in 0..MaxPcmLen :
          BSynthReturn(c, len) /\ UNCHANGED BFrame
    \/ BRecv /\ UNCHANGED BFrame

SpecBarge == BInit /\ [][BNext]_vars

----------------------------------------------------------------------------
(* C29: if stop_speaking() runs while a speak_text() call awaits a         *)
(* synthesis, no byte that call enqueues afterwards is in a frame the      *)
(* track returns, a later speak_text that attaches the FIFO-backed         *)
(* generator again included.                                               *)

C29_InterruptedSpeechNeverEmitted ==
    slog.op = "recv" =>
        \A k \in 1..Len(slog.frame) :
            \A c \in 1..Len(speaks) :
                speaks[c].cut > 0 =>
                    \A j \in speaks[c].cut..speaks[c].n :
                        slog.frame[k] # 10 * c + j
----------------------------------------------------------------------------
(* C30: once close() has cancelled its tasks, no background task the       *)
(* session has spawned is live, neither a periodic transcriber nor the     *)
(* microphone ingest; recording is off and no generator is attached.       *)

C30_CloseLeavesNothingLive ==
    rlog.op = "close" =>
        /\ \A k \in 1..Len(tasks) : tasks[k].pc \notin {"sleep", "stt"}
        /\ session.mic_recv_task # "live"
        /\ ~session.recording
        /\ session.audio_source.generator = "None"
----------------------------------------------------------------------------
(* C31: a pull task tests the socket's closed flag right before each of    *)
(* its sends, so it never sends on a socket that is already closed; once   *)
(* the socket is closed it ends without raising.                           *)

C31_NoSendOnClosedSocket ==
    \A k \in 1..Len(pulls) : pulls[k].on_closed = 0
----------------------------------------------------------------------------
(* C32: in each iteration of chat(), a reply with no tool call is          *)
(* returned and, when its text is not empty, appended to the history as an *)
(* assistant message; a reply with tool calls is appended as an assistant  *)
(* message carrying them, to the history and to the per-turn list, and     *)
(* every call whose callback returns adds one tool message to both, in     *)
(* call order; at every request the per-turn list is the system prompt     *)
(* followed by the history.                                                *)

C32_AtRequest ==
    /\ orch.pc \in {"request", "await"} =>
           orch.all_messages = <<"system">> \o orch.messages
    /\ (orch.pc = "done" /\ olog.ret = "text"
            /\ orch.iteration < max_tool_calls_per_turn) =>
           /\ orch.messages # <<>>
           /\ orch.messages[Len(orch.messages)] = "assistant"
    /\ orch.pc = "tools" => orch.pending # <<>>

C32_Iteration ==
    /\ (orch.pc = "await" /\ orch'.pc = "done") =>
           orch'.messages = IF olog'.ret = "text"
                            THEN Append(orch.messages, "assistant")
                            ELSE orch.messages
    /\ (orch.pc = "await" /\ orch'.pc = "tools") =>
           /\ orch'.messages = Append(orch.messages, "assistant_tc")
           /\ orch'.all_messages = Append(orch.all_messages, "assistant_tc")
    /\ (orch.pc = "tools" /\ orch'.pc # "raised") =>
           /\ orch'.messages = Append(orch.messages, "tool")
           /\ orch'.all_messages = Append(orch.all_messages, "tool")
           /\ orch'.pending = Tail(orch.pending)
           /\ orch'.pc = (IF orch'.pending = <<>> THEN "request" ELSE "tools")

----------------------------------------------------------------------------
(* C33: every partial transcription is made over all the frames captured   *)
(* since start_recording, and nothing is taken out of the capture buffer   *)
(* for it, so the partials of one recording are heard in growing prefixes  *)
(* of its frames; on_partial is called only with a text that is not empty  *)
(* and only while recording is on.                                         *)

C33_IsPrefix(s, t) == Len(s) <= Len(t) /\ SubSeq(t, 1, Len(s)) = s

C33_PartialsOverTheRecording ==
    /\ \A k \in 1..Len(tasks) :
           tasks[k].pc = "stt" => tasks[k].snap # <<>>
    /\ rlog.partial # NoText =>
           /\ rlog.partial.heard # <<>>
           /\ C33_IsPrefix(rlog.partial.heard, rlog.captured)
----------------------------------------------------------------------------
(* C34: in every state of an AudioQueue 0 <= offset <= len(current) and    *)
(* available is len(current) - offset plus the lengths of the queued       *)
(* blobs; enqueue(b) raises available by len(b) and adds b behind the      *)
(* unread bytes, read(n) lowers it by min(n, available) and takes exactly  *)
(* the bytes it returns, and clear() alone takes away unread bytes.        *)

\* the unread bytes, oldest first
C34_Unread(q) ==
    SubSeq(q.current, q.offset + 1, Len(q.current)) \o Concat(q.chunks)

C34_State ==
    /\ queue.offset >= 0
    /\ queue.offset <= Len(queue.current)
    /\ AQ_available(queue) = Len(C34_Unread(queue))
    /\ qlog.last.op = "enqueue" =>
           AQ_available(queue) = qlog.last.avail + qlog.last.n
    /\ qlog.last.op = "read" =>
           AQ_available(queue) =
               qlog.last.avail - Min(qlog.last.n, qlog.last.avail)
    /\ qlog.last.op = "clear" => AQ_available(queue) = 0

C34_Step ==
    /\ qlog'.last.op = "enqueue" =>
           C34_Unread(queue') = C34_Unread(queue) \o qlog'.last.out
    /\ qlog'.last.op = "read" =>
           LET k == Min(qlog'.last.n, AQ_available(queue))
           IN  C34_Unread(queue) =
                   SubSeq(qlog'.last.out, 1, k) \o C34_Unread(queue')

C34_QueueAccounting == [](C34_State) /\ [][C34_Step]_vars

\* a read has stopped inside a blob with another blob queued behind it
C34_Witness ==
    /\ qlog.last.op = "read"
    /\ queue.offset > 0
    /\ queue.offset < Len(queue.current)
    /\ queue.chunks # <<>>
    /\ qlog.last.avail > qlog.last.n
----------------------------------------------------------------------------
(* C35: on a connection that has not sent a hello with the right token no  *)
(* Session is created and no session operation (start, speak, mic_start,   *)
(* mic_stop, stop_speaking) is carried out.                                *)

C35_SessionOps == {"start", "speak", "mic_start", "mic_stop", "stop_speaking"}

C35_NoSessionBeforeHello ==
    /\ hlog.created > 0 => hlog.greeted
    /\ session # NoSession => hlog.greeted
    /\ (hlog.msg.type \in C35_SessionOps /\ hlog.had_session) => hlog.greeted
----------------------------------------------------------------------------
(* C36: at any time at most one periodic transcriber of a session is live, *)
(* whatever the sequence of start_recording and stop_recording calls, two  *)
(* start_recording calls with no stop_recording between them included.     *)

C36_AtMostOneTranscriber ==
    Cardinality({k \in 1..Len(tasks) : tasks[k].pc \in {"sleep", "stt"}}) <= 1
----------------------------------------------------------------------------
(* C37: from the moment stop_recording has set recording off, through its  *)
(* final transcription and after it has returned the final text, no        *)
(* partial is passed to on_transcription until the next start_recording,   *)
(* a periodic transcription that was running in a worker thread when       *)
(* stop_recording was called included.                                     *)

C37_Stopped == rlog.op \in {"stop_recording", "stop_returned", "stop_raised"}

C37_Step ==
    (C37_Stopped /\ rlog'.op # "start_recording") =>
        rlog'.partial = rlog.partial

C37_NoPartialAfterFinal == [][C37_Step]_vars

\* the final text has been returned after a partial of the recording, and
\* a periodic transcription is still running in its worker thread
C37_Witness ==
    /\ rlog.op = "stop_returned"
    /\ rlog.ret # NoText
    /\ rlog.partial # NoText
    /\ \E k \in 1..Len(tasks) : tasks[k].pc = "stt" /\ tasks[k].snap # <<>>

----------------------------------------------------------------------------
(* C38: for a finished mic_stop, an "LLM error" message was sent only if   *)
(* the language-model call itself failed; agent_reply and an error were    *)
(* never both sent for the turn; and the conversation gained an assistant  *)
(* turn after the call only if the reply is being spoken.                  *)

C38_Sent(type) ==
    \E i \in 1..Len(hlog.replies) : hlog.replies[i].type = type

C38_ErrorOnlyForFailedCall ==
    (/\ hlog.msg.type = "mic_stop"
     /\ hlog.had_session
     /\ hpc = "loop")
    => /\ (\E i \in 1..Len(hlog.replies) :
               hlog.replies[i] = Reply("error", "LLM error"))
          => hlog.llm = "failed"
       /\ ~(C38_Sent("agent_reply") /\ C38_Sent("error"))
       /\ (hlog.llm # "none" /\ conversation # hlog.hist_at_call)
          => session.audio_source.generator = "tts"

----------------------------------------------------------------------------
(* C39: the trim at the head of chat() leaves a suffix of the history as   *)
(* it was with the new user message appended, of at most                   *)
(* max_history_messages messages, not empty, whose first message is not a  *)
(* tool message and whose last message is the user message just appended.  *)

C39_IsSuffix(s, t) ==
    /\ Len(s) <= Len(t)
    /\ s = SubSeq(t, Len(t) - Len(s) + 1, Len(t))

\* every assistant message with tool_calls is immediately followed by a
\* tool message
ToolGroupsComplete(msgs) ==
    \A i \in 1..Len(msgs) :
        HasToolCalls(msgs[i]) => (i < Len(msgs) /\ Role(msgs[i + 1]) = "tool")

C39_Trimmed(old, new) ==
    /\ C39_IsSuffix(new, old)
    /\ Len(new) <= max_history_messages
    /\ new # <<>>
    /\ Role(new[1]) # "tool"
    /\ new[Len(new)] = "user"

C39_TrimStep ==
    orch'.chats = orch.chats + 1
        => C39_Trimmed(Append(orch.messages, "user"), orch'.messages)

C39_TrimOfChatHistories == [][C39_TrimStep]_vars

\* the same for a history in which every tool group is complete
C39_CompleteStep ==
    (orch'.chats = orch.chats + 1 /\ ToolGroupsComplete(orch.messages))
        => C39_Trimmed(Append(orch.messages, "user"), orch'.messages)

C39_ForCompleteGroups == [][C39_CompleteStep]_vars

----------------------------------------------------------------------------
(* C40: when chat() has returned or raised, no tool call of its last       *)
(* response is left without its tool message, and every assistant message  *)
(* with tool_calls in the history is immediately followed by a tool        *)
(* message.                                                                *)

C40_NoOrphanedToolGroup ==
    orch.pc \in {"done", "raised"}
        => /\ orch.pending = <<>>
           /\ ToolGroupsComplete(orch.messages)

====
